---- MODULE Spec2Model ----
(***************************************************************************)
(* A model of csvdb.js (src/src/csvdb.ts): the CSVDBQuery pipeline         *)
(* generator (#iter), the selection evaluator (#mapSelectionToRow), the    *)
(* window evaluator (applyWindow) and the row helpers (isSame, isDistinct, *)
(* filter, groupRows).                                                      *)
(***************************************************************************)
EXTENDS Integers, Sequences, FiniteSets, TLC

VARIABLES
    rows,           \* CSVDBQuery.#rows: the row source handed to the constructor
    join,           \* CSVDBQuery.#join: the registered join stages
    where,          \* CSVDBQuery.#where: the registered predicates
    groupBy,        \* CSVDBQuery.#groupBy: the group discriminator, or NoField
    selection,      \* CSVDBQuery.#selection: NoSelection or a list of columns
    offset,         \* CSVDBQuery.#offset
    limit,          \* CSVDBQuery.#limit
    distinct,       \* CSVDBQuery.#distinct
    sort,           \* CSVDBQuery.#sort: the comparator, or NoSort
    windowSpecs,    \* CSVDBQuery.#windowSpecs: the named windows, name -> spec
    pc,             \* position of the #iter generator: build/suspended/done/error
    rowsIn,         \* #iter local `rows` after the join loop (what the filters read)
    pulled,         \* how many items of rowsIn the filter chain has taken so far
    fIndex,         \* the counter `i` of each filter() generator
    rowGroups,      \* #iter local `rowGroups` when it is materialised
    allRowGroup,    \* #iter local `allRowGroup`: <<>> (undefined) or <<the array>>
    lazy,           \* TRUE when rowGroups is the lazy filter chain itself
    g,              \* how many items of a materialised rowGroups were consumed
    distinctCache,  \* #iter local `distinctCache`
    i,              \* #iter local `i`, the output row number
    yielded,        \* history: the rows the generator has yielded, in order
    joinCalls,      \* history: the calls made to join stages, <<stage, argument>>
    stageRows,      \* history: stageRows[s] is the input row set of stage s
    predCalls,      \* history: the calls made to predicates, <<predicate, row, index>>
    internalIterator, \* CSVDBQuery.#internalIterator: NoIterator or a generator
    call,           \* the pending call of a helper checked on its own
    setGen,         \* the locals of an except / intersect / unionAll generator
    ret,            \* the value that helper returned
    rawLines,       \* CSVDB.#rawLines: the data lines, each the list of its fields
    parsedRows,     \* CSVDB.#parsedRows: the cache of the rows parsed so far
    dbIterators,    \* the CSVDB.#iter generators made so far, with their locals
    parses          \* history: the index of the line of each parseCSVLine call

vars == <<rows, join, where, groupBy, selection, offset, limit, distinct, sort,
          windowSpecs, pc,
          rowsIn, pulled, fIndex, rowGroups, allRowGroup, lazy, g, distinctCache, i,
          yielded, joinCalls, stageRows, predCalls, internalIterator,
          call, setGen, ret, rawLines, parsedRows, dbIterators, parses>>

builderVars == <<join, where, groupBy, selection, offset, limit, distinct, sort,
                 windowSpecs>>
iterVars == <<pc, rowsIn, pulled, fIndex, rowGroups, allRowGroup, lazy, g, distinctCache, i,
              yielded, joinCalls, stageRows, predCalls, internalIterator>>
dbVars == <<rawLines, parsedRows, dbIterators, parses>>
helperVars == <<call, setGen, ret, dbVars>>

----------------------------------------------------------------------------
(* Bounds of the model *)

MaxRows == 3
MaxOffset == 2
MaxLimit == 2
MaxJoins == 2
MaxWhere == 2
MaxFrame == 2
MaxCalls == 5
MaxExecutions == 3
MaxIterators == 3

----------------------------------------------------------------------------
(* JavaScript values: strings, numbers (as reduced fractions), NaN,        *)
(* undefined and null, all of one record shape.                            *)

Str(s) == [t |-> "string", s |-> s, n |-> 0, d |-> 1]
Num(k) == [t |-> "number", s |-> "", n |-> k, d |-> 1]
NaN == [t |-> "NaN", s |-> "", n |-> 0, d |-> 1]
undefined == [t |-> "undefined", s |-> "", n |-> 0, d |-> 1]
null == [t |-> "null", s |-> "", n |-> 0, d |-> 1]

\* The === operator: NaN is equal to nothing, itself included.
StrictEquals(x, y) == x.t # "NaN" /\ x = y

Abs(k) == IF k < 0 THEN -k ELSE k

RECURSIVE GCD(_, _)
GCD(x, y) == IF y = 0 THEN x ELSE GCD(y, x % y)

\* The number x / y of JavaScript's `/`, for integers x and y >= 0.
Divide(x, y) ==
    IF y = 0
    THEN (IF x = 0 THEN NaN ELSE [t |-> "number", s |-> "", n |-> x \div Abs(x), d |-> 0])
    ELSE LET c == GCD(Abs(x), y)
         IN  [t |-> "number", s |-> "", n |-> x \div c, d |-> y \div c]

\* The unary + of the decimal strings the model's rows hold.
NumericStrings ==
    ("0" :> 0) @@ ("1" :> 1) @@ ("2" :> 2) @@ ("3" :> 3) @@ ("4" :> 4) @@ ("10" :> 10)

\* The decimal fractions a call's argument list holds, as <<numerator, denominator>>.
FractionStrings ==
    ("0.25" :> <<1, 4>>) @@ ("0.5" :> <<1, 2>>) @@ ("0.75" :> <<3, 4>>)

\* ToNumber: what `+v` gives.  NaN for undefined and for non-numeric text.
ToNumber(v) ==
    CASE v.t = "number" -> v
      [] v.t = "null" -> Num(0)
      [] v.t = "string" /\ v.s = "" -> Num(0)
      [] v.t = "string" /\ v.s \in DOMAIN NumericStrings -> Num(NumericStrings[v.s])
      [] v.t = "string" /\ v.s \in DOMAIN FractionStrings ->
            Divide(FractionStrings[v.s][1], FractionStrings[v.s][2])
      [] OTHER -> NaN

\* x / y for integers of either sign
Ratio(x, y) == IF y < 0 THEN Divide(-x, -y) ELSE Divide(x, y)

\* Math.floor of a number: NaN and the infinities are kept
Floor(v) == IF v.t = "NaN" \/ v.d = 0 THEN v ELSE Num(v.n \div v.d)

\* v + k for an integer k
PlusInteger(v, k) == IF v.t = "NaN" \/ v.d = 0 THEN v ELSE Ratio(v.n + k * v.d, v.d)

\* x - y and x / y of two finite numbers, NaN when either is NaN
Minus(x, y) ==
    IF x.t = "NaN" \/ y.t = "NaN" THEN NaN ELSE Ratio(x.n * y.d - y.n * x.d, x.d * y.d)

Quotient(x, y) ==
    IF x.t = "NaN" \/ y.t = "NaN" THEN NaN ELSE Ratio(x.n * y.d, x.d * y.n)

\* x >= y: false when either is NaN
AtLeast(x, y) == x.t # "NaN" /\ y.t # "NaN" /\ x.n * y.d >= y.n * x.d

\* What `v || null` keeps: a value that is not falsy
Truthy(v) ==
    /\ v.t \notin {"undefined", "null", "NaN"}
    /\ v # Str("")
    /\ ~(v.t = "number" /\ v.n = 0)

Digits == <<"0", "1", "2", "3", "4", "5", "6", "7", "8", "9">>

RECURSIVE DecimalString(_)
DecimalString(k) ==
    IF k < 0 THEN "-" \o DecimalString(-k)
    ELSE IF k < 10 THEN Digits[k + 1]
    ELSE DecimalString(k \div 10) \o Digits[(k % 10) + 1]

\* What Array.prototype.join makes of one element.
JoinString(v) ==
    CASE v.t = "string" -> v.s
      [] v.t = "undefined" -> ""
      [] v.t = "null" -> ""
      [] v.t = "NaN" -> "NaN"
      [] OTHER -> IF v.d = 1 THEN DecimalString(v.n)
                  ELSE DecimalString(v.n) \o "/" \o DecimalString(v.d)

----------------------------------------------------------------------------
(* Row objects: an identity and the own properties in insertion order.     *)

Row(id, entries) == [id |-> id, e |-> entries]
Entry(k, v) == [k |-> k, v |-> v]

\* The `undefined` that rowGroupOrRow[0] is for an empty group, or that
\* next().value is for an exhausted iterator.
NoRow == [id |-> -1, e |-> <<>>]

\* Object.keys(row)
Keys(row) == [j \in 1..Len(row.e) |-> row.e[j].k]

HasKey(row, key) == \E j \in 1..Len(row.e) : row.e[j].k = key

\* row[key]: undefined when the row has no such property.
Get(row, key) ==
    IF HasKey(row, key)
    THEN row.e[CHOOSE j \in 1..Len(row.e) : row.e[j].k = key].v
    ELSE undefined

\* out[key] = v
Put(row, key, v) ==
    IF HasKey(row, key)
    THEN [row EXCEPT !.e = [j \in 1..Len(row.e) |->
                              IF row.e[j].k = key THEN Entry(key, v) ELSE row.e[j]]]
    ELSE [row EXCEPT !.e = Append(row.e, Entry(key, v))]

\* Object.values(row)[column]
ValueAt(row, column) ==
    IF column + 1 \in 1..Len(row.e) THEN row.e[column + 1].v ELSE undefined

\* getNextValue(column) for a column number, `row` being what getNextRow()
\* returned (NoRow when the iterator was exhausted).
getNextValue(row, column) == IF row = NoRow THEN undefined ELSE ValueAt(row, column)

----------------------------------------------------------------------------
(* Row equality (isSame, isDistinct)                                        *)

\* keysA.length === keysB.length and rowA[key] === rowB[key] for each key of rowA
isSame(rowA, rowB) ==
    LET keysA == Keys(rowA)
        keysB == Keys(rowB)
    IN  IF Len(keysA) # Len(keysB)
        THEN FALSE
        ELSE \A j \in 1..Len(keysA) :
                StrictEquals(Get(rowA, keysA[j]), Get(rowB, keysA[j]))

\* rows.every((rowB) => !isSame(row, rowB))
isDistinct(cache, row) == \A j \in 1..Len(cache) : ~isSame(row, cache[j])

----------------------------------------------------------------------------
(* Builder state                                                            *)

\* A number that may be infinite: the limit of a query, a framing bound.
Infinity == [inf |-> 1, n |-> 0]
MinusInfinity == [inf |-> -1, n |-> 0]
Finite(k) == [inf |-> 0, n |-> k]
IsFinite(x) == x.inf = 0

NoField == ""
NoSelection == [set |-> FALSE, cols |-> <<>>]

\* A column of a selection object: its alias and the parts the regular
\* expression of #mapSelectionToRow splits the string into.  fn = "" is a
\* plain field name (held in arg).
\* rest is what follows the first argument of the call; array is TRUE for the
\* pair syntax [column, windowNameOrSpec], whose window is a name (over) or an
\* inline spec (spec = <<the spec>>).
Column(alias, fn, arg, over) ==
    [alias |-> alias, fn |-> fn, arg |-> arg, over |-> over,
     rest |-> <<>>, array |-> FALSE, spec |-> <<>>]

\* "NAME(arg,more...)": the arguments after the first
WithArguments(col, rest) == [col EXCEPT !.rest = rest]

\* "NAME(arg) OVER windowName", windowName being a name or "()"
Over(col, windowName) ==
    [col EXCEPT !.over = windowName, !.alias = @ \o " OVER " \o windowName]

\* [col, windowName] and [col, windowSpec]
PairWithName(col, windowName) == [col EXCEPT !.array = TRUE, !.over = windowName]
PairWithSpec(col, windowSpec) == [col EXCEPT !.array = TRUE, !.spec = <<windowSpec>>]

\* select([...]): every string of the list is its own alias.
Field(name) == Column(name, "", name, "")
Builtin(fn, arg) == Column(fn \o "(" \o arg \o ")", fn, arg, "")

SelectList(cols) == [set |-> TRUE, cols |-> cols]

\* Builtin names that /^[A-Z]+\(/ cannot match: they hold an underscore.
NamesWithUnderscore ==
    {"ROW_NUMBER", "DENSE_RANK", "PERCENT_RANK", "CUME_DIST", "PERCENTILE_DIST",
     "PERCENTILE_CONT", "FIRST_VALUE", "LAST_VALUE", "NTH_VALUE",
     "STDDEV_POP", "STDDEV_SAMP", "VAR_POP", "VAR_SAMP"}

\* /^[A-Z]+\([^)]*\)$/.test(col): a call of letters only, with no OVER clause
isAggregate(col) ==
    ~col.array /\ col.fn # "" /\ col.over = "" /\ col.fn \notin NamesWithUnderscore

\* Mutant: only the first column of the selection is looked at.
hasAggregatesInFirstColumn ==
    selection.set /\ selection.cols # <<>> /\ isAggregate(selection.cols[1])

hasAggregates ==
    IF ~selection.set THEN FALSE
    ELSE \E j \in 1..Len(selection.cols) : isAggregate(selection.cols[j])

\* haveWindowFunctions of #iter: a window is registered, or a column ends in
\* " OVER ()" or is a pair
haveWindowFunctions ==
    \/ DOMAIN windowSpecs # {}
    \/ /\ selection.set
       /\ \E j \in 1..Len(selection.cols) :
             \/ ~selection.cols[j].array /\ selection.cols[j].over = "()"
             \/ selection.cols[j].array

----------------------------------------------------------------------------
(* Aggregate functions                                                      *)

\* total + +v
Plus(total, v) ==
    LET k == ToNumber(v)
    IN  IF total.t = "NaN" \/ k.t = "NaN" THEN NaN ELSE Num(total.n + k.n)

RECURSIVE Reduce(_, _)
Reduce(values, total) ==
    IF values = <<>> THEN total ELSE Reduce(Tail(values), Plus(total, Head(values)))

SUM(values) == Reduce(values, Num(0))

AVG(values) ==
    LET total == SUM(values)
    IN  IF total.t = "NaN" THEN NaN ELSE Divide(total.n, Len(values))

COUNT(values) == Num(Len(values))

RECURSIVE JoinValues(_)
JoinValues(values) ==
    IF values = <<>> THEN ""
    ELSE IF Len(values) = 1 THEN JoinString(values[1])
    ELSE JoinString(values[1]) \o "," \o JoinValues(Tail(values))

LISTAGG(values) == Str(JoinValues(values))

ANY(values) == IF values = <<>> THEN undefined ELSE values[1]

\* Math.max(...values) and Math.min(...values): NaN when a value is not a
\* number, -Infinity and Infinity for no values
RECURSIVE Extreme(_, _, _)
Extreme(values, sign, best) ==
    IF values = <<>> THEN best
    ELSE LET k == ToNumber(Head(values))
         IN  IF k.t = "NaN" THEN NaN
             ELSE IF best.d = 0 \/ sign * k.n > sign * best.n
             THEN Extreme(Tail(values), sign, k)
             ELSE Extreme(Tail(values), sign, best)

MAX(values) == Extreme(values, 1, Ratio(-1, 0))
MIN(values) == Extreme(values, -1, Ratio(1, 0))

AggregateNames == {"SUM", "AVG", "MAX", "MIN", "COUNT", "LISTAGG", "ANY"}

AGGREGATE_FUNCTIONS(fnName, values) ==
    CASE fnName = "SUM" -> SUM(values)
      [] fnName = "AVG" -> AVG(values)
      [] fnName = "MAX" -> MAX(values)
      [] fnName = "MIN" -> MIN(values)
      [] fnName = "COUNT" -> COUNT(values)
      [] fnName = "LISTAGG" -> LISTAGG(values)
      [] fnName = "ANY" -> ANY(values)

----------------------------------------------------------------------------
(* Statistical functions (VARIANCE_SUM, STAT_FUNCTIONS).  A square root    *)
(* that is not rational is kept as its radicand n / d with s = "sqrt", the *)
(* square root of such a number with s = "sqrt sqrt".                      *)

IsSquare(k) == \E r \in 0..k : r * r = k

\* Math.sqrt(v)
Sqrt(v) ==
    IF v.t = "NaN" \/ v.n < 0 THEN NaN
    ELSE IF v.d = 0 THEN v
    ELSE IF v.s = "" /\ IsSquare(v.n) /\ IsSquare(v.d)
    THEN Ratio(CHOOSE r \in 0..v.n : r * r = v.n, CHOOSE r \in 0..v.d : r * r = v.d)
    ELSE [v EXCEPT !.s = IF @ = "" THEN "sqrt" ELSE "sqrt sqrt"]

\* v / m for the integer m a length gives.  A root is positive and comes from
\* at least two values, so that m >= 1 for it.
DividedBy(v, m) ==
    IF v.t = "NaN" THEN NaN
    ELSE IF v.s = "" THEN Ratio(v.n, v.d * m)
    ELSE [Ratio(v.n, v.d * m * m) EXCEPT !.s = v.s]

\* total + Math.pow(+v - mean, 2)
PlusSquare(total, v, mean) ==
    CHOOSE next \in
        {IF total.t = "NaN" \/ delta.t = "NaN" THEN NaN
         ELSE Ratio(total.n * delta.d * delta.d + delta.n * delta.n * total.d,
                    total.d * delta.d * delta.d) :
         delta \in {Minus(ToNumber(v), mean)}} : TRUE

\* values.reduce((total, v) => total + Math.pow(+v - mean, 2), 0)
RECURSIVE ReduceSquares(_, _, _)
ReduceSquares(values, mean, total) ==
    IF values = <<>> THEN total
    ELSE ReduceSquares(Tail(values), mean, PlusSquare(total, Head(values), mean))

VARIANCE_SUM(values) ==
    Sqrt(DividedBy(ReduceSquares(values, DividedBy(SUM(values), Len(values)), Num(0)),
                   Len(values)))

StatNames == {"STDDEV_POP", "STDDEV_SAMP", "VAR_POP", "VAR_SAMP"}

STAT_FUNCTIONS(fnName, values) ==
    CASE fnName = "STDDEV_POP" -> Sqrt(DividedBy(VARIANCE_SUM(values), Len(values)))
      [] fnName = "STDDEV_SAMP" -> Sqrt(DividedBy(VARIANCE_SUM(values), Len(values) - 1))
      [] fnName = "VAR_POP" -> DividedBy(VARIANCE_SUM(values), Len(values))
      [] fnName = "VAR_SAMP" -> DividedBy(VARIANCE_SUM(values), Len(values) - 1)

----------------------------------------------------------------------------
(* Selection evaluator (#mapSelectionToRow)                                 *)

\* rows.indexOf(sourceRow): the 0-based position of that object, or -1
IndexOf(rs, sourceRow) ==
    IF \E j \in 1..Len(rs) : rs[j].id = sourceRow.id
    THEN (CHOOSE j \in 1..Len(rs) :
             rs[j].id = sourceRow.id /\ \A m \in 1..(j - 1) : rs[m].id # sourceRow.id) - 1
    ELSE -1

\* rows.map((row) => row[args[0]])
Pluck(rs, field) == [j \in 1..Len(rs) |-> Get(rs[j], field)]

\* Object.assign(out, sourceRow)
RECURSIVE Assign(_, _, _)
Assign(out, src, j) ==
    IF j > Len(src.e) THEN out
    ELSE Assign(Put(out, src.e[j].k, src.e[j].v), src, j + 1)

----------------------------------------------------------------------------
(* Window evaluator (applyWindow, getOrderBy)                               *)

\* A window spec.  partitionBy is a field name or NoField; orderBy is NoOrder
\* or a field name with its prefix ("+", "-" or none) split off; framing is
\* <<>> or <<unit, start, end>>, start and end being JavaScript values.
WindowSpec(partitionBy, orderBy, framing) ==
    [partitionBy |-> partitionBy, orderBy |-> orderBy, framing |-> framing]

NoOrder == [prefix |-> "", field |-> ""]
OrderBy(prefix, field) == [prefix |-> prefix, field |-> field]

\* The rank of the strings of the model's rows under localeCompare.
LocaleRank == ("1" :> 1) @@ ("10" :> 2) @@ ("2" :> 3) @@ ("3" :> 4) @@ ("x" :> 5) @@ ("y" :> 6)

\* The key the comparator of getOrderBy reads: only a "+" prefix is cut off.
OrderKey(windowSpec) ==
    IF windowSpec.orderBy.prefix = "+" THEN windowSpec.orderBy.field
    ELSE windowSpec.orderBy.prefix \o windowSpec.orderBy.field

\* rowA[k].localeCompare(..) throws a TypeError when rowA[k] is not a string.
\* Which rows a sort makes the receiver of a comparison is up to the engine;
\* a partition of two rows or more none of which holds a string under k
\* throws in every engine, one whose rows all hold strings in none.
ComparatorThrows(windowSpec, partition) ==
    /\ windowSpec.orderBy.prefix # "+"
    /\ Len(partition) >= 2
    /\ \E j \in 1..Len(partition) : Get(partition[j], OrderKey(windowSpec)).t # "string"

\* The sign of what the comparator of getOrderBy returns for two rows: the
\* numeric difference for a "+" prefix (NaN sorts as 0), localeCompare else.
Compare(windowSpec, rowA, rowB) ==
    LET k == OrderKey(windowSpec)
    IN  IF windowSpec.orderBy.prefix = "+"
        THEN LET x == ToNumber(Get(rowA, k))
                 y == ToNumber(Get(rowB, k))
             IN  IF x.t = "NaN" \/ y.t = "NaN" THEN 0 ELSE x.n - y.n
        ELSE IF Get(rowA, k).t = "string" /\ Get(rowB, k).t = "string"
        THEN LocaleRank[Get(rowA, k).s] - LocaleRank[Get(rowB, k).s]
        ELSE 0

\* x put into an ordered list behind every row that does not order after it.
RECURSIVE Insert(_, _, _)
Insert(sorted, x, windowSpec) ==
    IF sorted = <<>> THEN <<x>>
    ELSE IF Compare(windowSpec, sorted[Len(sorted)], x) > 0
    THEN Append(Insert(SubSeq(sorted, 1, Len(sorted) - 1), x, windowSpec),
                sorted[Len(sorted)])
    ELSE Append(sorted, x)

\* [...rows].sort(orderBy): a stable sort.
RECURSIVE Sort(_, _, _)
Sort(rs, windowSpec, sorted) ==
    IF rs = <<>> THEN sorted
    ELSE Sort(Tail(rs), windowSpec, Insert(sorted, Head(rs), windowSpec))

\* x + k and Math.max(x, 0) for a number x that may be infinite
AddTo(x, k) == IF IsFinite(x) THEN Finite(x.n + k) ELSE x
MaxWithZero(x) ==
    IF x.inf = 1 THEN x
    ELSE IF x.inf = -1 \/ x.n < 0 THEN Finite(0)
    ELSE x

\* The index Array.prototype.slice makes of an argument: a negative one
\* counts from the end of the array.
RelativeIndex(x, len) ==
    IF x.inf = -1 THEN 0
    ELSE IF x.inf = 1 THEN len
    ELSE IF x.n < 0 THEN (IF len + x.n > 0 THEN len + x.n ELSE 0)
    ELSE IF x.n < len THEN x.n ELSE len

\* rs.slice(start, end)
slice(rs, start, end) ==
    LET k == RelativeIndex(start, Len(rs))
        final == RelativeIndex(end, Len(rs))
    IN  IF final > k THEN SubSeq(rs, k + 1, final) ELSE <<>>

\* framingStart as the framing's second element sets it
FramingStart(v) ==
    CASE v.t = "number" -> Finite(v.n)
      [] v = Str("UNBOUNDED PRECEDING") -> MinusInfinity
      [] v = Str("CURRENT ROW") -> Finite(0)
      [] OTHER -> MinusInfinity

\* framingEnd as the framing's third element sets it
FramingEnd(v) ==
    CASE v.t = "number" -> Finite(v.n)
      [] v = Str("UNBOUNDED FOLLOWING") -> Infinity
      [] v = Str("CURRENT ROW") -> Finite(0)
      [] OTHER -> Finite(0)

EndIndexBeforeCurrent(index, framingEnd) == AddTo(framingEnd, index)

\* The end index handed to slice: index + framingEnd + 1.
EndIndex(index, framingEnd) == AddTo(framingEnd, index + 1)

\* rows.filter((row) => fn(row) === sympatheticValue)
Partition(rs, partitionBy, sourceRow) ==
    LET sympathetic(row) == StrictEquals(Get(row, partitionBy), Get(sourceRow, partitionBy))
    IN  SelectSeq(rs, sympathetic)

\* The rows after `if (windowSpec.partitionBy)`
PartitionRows(rs, windowSpec, sourceRow) ==
    IF windowSpec.partitionBy # NoField
    THEN Partition(rs, windowSpec.partitionBy, sourceRow)
    ELSE rs

\* rows.slice(startIndex, endIndex) of the sorted rows
Frame(ordered, framing, index) ==
    slice(ordered,
          MaxWithZero(AddTo(IF framing = <<>> THEN MinusInfinity ELSE FramingStart(framing[2]),
                            index)),
          EndIndex(index, IF framing = <<>> THEN Finite(0) ELSE FramingEnd(framing[3])))

\* The body of `if (windowSpec.orderBy)` for the rows of the partition
OrderedFrame(partition, windowSpec, sourceRow) ==
    IF ComparatorThrows(windowSpec, partition)
    THEN [threw |-> TRUE, rows |-> <<>>]
    ELSE IF windowSpec.framing # <<>> /\ windowSpec.framing[1] # "ROWS"
    THEN [threw |-> TRUE, rows |-> <<>>]
    ELSE CHOOSE r \in {[threw |-> FALSE,
                        rows |-> Frame(ordered, windowSpec.framing,
                                       IndexOf(ordered, sourceRow))] :
                       ordered \in {Sort(partition, windowSpec, <<>>)}} : TRUE

\* applyWindow(rows, windowSpec, sourceRow): the frame, or threw = TRUE when
\* it throws.
applyWindow(rs, windowSpec, sourceRow) ==
    CHOOSE r \in {IF windowSpec.orderBy = NoOrder
                  THEN [threw |-> FALSE, rows |-> partition]
                  ELSE OrderedFrame(partition, windowSpec, sourceRow) :
                  partition \in {PartitionRows(rs, windowSpec, sourceRow)}} : TRUE

\* orderBy(rowA, rowB) !== 0 is false: the comparator's number is 0 (a NaN
\* is not).
OrderIsZero(windowSpec, rowA, rowB) ==
    IF windowSpec.orderBy.prefix = "+"
    THEN LET x == ToNumber(Get(rowA, OrderKey(windowSpec)))
             y == ToNumber(Get(rowB, OrderKey(windowSpec)))
         IN  x.t # "NaN" /\ y.t # "NaN" /\ x.n = y.n
    ELSE Compare(windowSpec, rowA, rowB) = 0

\* The loop of RANK from i = at downwards: where it breaks (-1 when it runs
\* out), or threw = TRUE when the comparator throws on its receiver rows[i].
RECURSIVE RankLoop(_, _, _, _)
RankLoop(at, sourceRow, rs, windowSpec) ==
    IF at < 0 THEN [threw |-> FALSE, i |-> at]
    ELSE IF windowSpec.orderBy.prefix # "+"
               /\ Get(rs[at + 1], OrderKey(windowSpec)).t # "string"
    THEN [threw |-> TRUE, i |-> at]
    ELSE IF ~OrderIsZero(windowSpec, rs[at + 1], sourceRow)
    THEN [threw |-> FALSE, i |-> at]
    ELSE RankLoop(at - 1, sourceRow, rs, windowSpec)

RankOfPosition(sourceRow, rs, windowSpec) ==
    [threw |-> FALSE, value |-> Num(IndexOf(rs, sourceRow) + 1)]

\* WINDOW_FUNCTIONS.RANK(sourceRow, rows, args, windowSpec); args is not read
RANK(sourceRow, rs, windowSpec) ==
    LET end == RankLoop(IndexOf(rs, sourceRow), sourceRow, rs, windowSpec)
    IN  [threw |-> end.threw, value |-> Num(end.i + 2)]

----------------------------------------------------------------------------
(* Window and position functions (WINDOW_FUNCTIONS, POSITION_FUNCTIONS)     *)

\* The comparator of getOrderBy called with `receiver` as its first argument
\* throws: there is no comparator without an orderBy, and localeCompare is
\* not a method of a value that is not a string.
ComparatorCallThrows(windowSpec, receiver) ==
    \/ windowSpec.orderBy = NoOrder
    \/ /\ windowSpec.orderBy.prefix # "+"
       /\ Get(receiver, OrderKey(windowSpec)).t # "string"

\* The loop of DENSE_RANK from i = at to index: how many neighbours order as
\* equal, or threw = TRUE
RECURSIVE DenseLoop(_, _, _, _, _)
DenseLoop(at, index, rs, windowSpec, count) ==
    IF at > index THEN [threw |-> FALSE, count |-> count]
    ELSE IF ComparatorCallThrows(windowSpec, rs[at]) THEN [threw |-> TRUE, count |-> count]
    ELSE DenseLoop(at + 1, index, rs, windowSpec,
                   IF OrderIsZero(windowSpec, rs[at], rs[at + 1]) THEN count + 1 ELSE count)

DENSE_RANK(sourceRow, rs, windowSpec) ==
    CHOOSE r \in {[threw |-> end.threw,
                   value |-> Num(IndexOf(rs, sourceRow) - end.count + 1)] :
                  end \in {DenseLoop(1, IndexOf(rs, sourceRow), rs, windowSpec, 0)}} : TRUE

\* Math.floor((+args[0] * index) / rows.length) + 1
NTILE(sourceRow, rs, args) ==
    CHOOSE r \in {[threw |-> FALSE,
                   value |-> IF buckets.t = "NaN" THEN NaN
                             ELSE PlusInteger(Floor(Ratio(buckets.n * IndexOf(rs, sourceRow),
                                                          buckets.d * Len(rs))), 1)] :
                  buckets \in {ToNumber(Str(args[1]))}} : TRUE

PERCENT_RANK(sourceRow, rs, windowSpec) ==
    IF Len(rs) = 1 THEN [threw |-> FALSE, value |-> Num(0)]
    ELSE CHOOSE r \in {[threw |-> end.threw, value |-> Ratio(end.i + 1, Len(rs) - 1)] :
                       end \in {RankLoop(IndexOf(rs, sourceRow), sourceRow, rs,
                                         windowSpec)}} : TRUE

\* The loop of CUME_DIST from i = at upwards: where it breaks
RECURSIVE CumeLoop(_, _, _, _)
CumeLoop(at, sourceRow, rs, windowSpec) ==
    IF at >= Len(rs) THEN [threw |-> FALSE, i |-> at]
    ELSE IF ComparatorCallThrows(windowSpec, rs[at + 1]) THEN [threw |-> TRUE, i |-> at]
    ELSE IF ~OrderIsZero(windowSpec, rs[at + 1], sourceRow) THEN [threw |-> FALSE, i |-> at]
    ELSE CumeLoop(at + 1, sourceRow, rs, windowSpec)

CUME_DIST(sourceRow, rs, windowSpec) ==
    CHOOSE r \in {[threw |-> end.threw, value |-> Ratio(end.i, Len(rs))] :
                  end \in {CumeLoop(IndexOf(rs, sourceRow) + 1, sourceRow, rs,
                                    windowSpec)}} : TRUE

\* The inner loop of findPercentile: the first j behind i whose key differs
RECURSIVE PeerEnd(_, _, _, _)
PeerEnd(rs, k, at, j) ==
    IF j >= Len(rs) THEN j
    ELSE IF ~StrictEquals(Get(rs[at + 1], k), Get(rs[j + 1], k)) THEN j
    ELSE PeerEnd(rs, k, at, j + 1)

\* The outer loop of findPercentile from i = at on: found = FALSE for null,
\* else the index i and the fraction x
RECURSIVE PercentileLoop(_, _, _, _, _)
PercentileLoop(rs, k, percentile, at, prevP) ==
    IF at >= Len(rs) THEN [found |-> FALSE, index |-> 0, x |-> NaN]
    ELSE CHOOSE r \in {IF AtLeast(p, percentile)
                       THEN [found |-> TRUE, index |-> at,
                             x |-> Quotient(Minus(percentile, prevP), Minus(p, prevP))]
                       ELSE PercentileLoop(rs, k, percentile, at + 1, p) :
                       p \in {Ratio(PeerEnd(rs, k, at, at + 1), Len(rs))}} : TRUE

\* findPercentile(rows, percentile, windowSpec), behind its test that the
\* orderBy is a string
findPercentile(rs, percentile, windowSpec) ==
    PercentileLoop(rs, OrderKey(windowSpec), percentile, 0, Num(0))

PERCENTILE_DIST(rs, args, windowSpec) ==
    IF windowSpec.orderBy = NoOrder THEN [threw |-> TRUE, value |-> undefined]
    ELSE CHOOSE r \in {[threw |-> FALSE,
                        value |-> IF result.found
                                  THEN Get(rs[result.index + 1], OrderKey(windowSpec))
                                  ELSE null] :
                       result \in {findPercentile(rs, ToNumber(Str(args[1])),
                                                  windowSpec)}} : TRUE

\* x * (b - a) + a
Interpolate(x, a, b) ==
    IF a.t = "NaN" \/ b.t = "NaN" \/ x.t = "NaN" THEN NaN
    ELSE Ratio(x.n * (b.n - a.n) + a.n * x.d, x.d)

\* PERCENTILE_CONT: rows[index - 1] is undefined for index 0, and reading a
\* property of undefined throws a TypeError
PERCENTILE_CONT(rs, args, windowSpec) ==
    IF windowSpec.orderBy = NoOrder THEN [threw |-> TRUE, value |-> undefined]
    ELSE CHOOSE r \in
            {IF ~result.found THEN [threw |-> FALSE, value |-> null]
             ELSE IF result.index = 0 THEN [threw |-> TRUE, value |-> undefined]
             ELSE [threw |-> FALSE,
                   value |-> Interpolate(result.x,
                                ToNumber(Get(rs[result.index], OrderKey(windowSpec))),
                                ToNumber(Get(rs[result.index + 1], OrderKey(windowSpec))))] :
             result \in {findPercentile(rs, ToNumber(Str(args[1])), windowSpec)}} : TRUE

RankNames ==
    {"RANK", "DENSE_RANK", "NTILE", "PERCENT_RANK", "CUME_DIST", "PERCENTILE_DIST",
     "PERCENTILE_CONT"}

WINDOW_FUNCTIONS(fnName, sourceRow, rs, args, windowSpec) ==
    CASE fnName = "RANK" -> RANK(sourceRow, rs, windowSpec)
      [] fnName = "DENSE_RANK" -> DENSE_RANK(sourceRow, rs, windowSpec)
      [] fnName = "NTILE" -> NTILE(sourceRow, rs, args)
      [] fnName = "PERCENT_RANK" -> PERCENT_RANK(sourceRow, rs, windowSpec)
      [] fnName = "CUME_DIST" -> CUME_DIST(sourceRow, rs, windowSpec)
      [] fnName = "PERCENTILE_DIST" -> PERCENTILE_DIST(rs, args, windowSpec)
      [] fnName = "PERCENTILE_CONT" -> PERCENTILE_CONT(rs, args, windowSpec)

\* values[at] for a number `at`: undefined unless it is an index of the array
ElementAt(values, at) ==
    IF at.t = "number" /\ at.d = 1 /\ at.n + 1 \in 1..Len(values)
    THEN values[at.n + 1]
    ELSE undefined

\* v || null
OrNull(v) == IF Truthy(v) THEN v ELSE null

\* delta of LEAD and LAG: 1, or +args[1] when there is a second argument
Delta(args) == IF Len(args) > 1 THEN ToNumber(Str(args[2])) ELSE Num(1)

PositionNames == {"LEAD", "LAG", "FIRST_VALUE", "LAST_VALUE", "NTH_VALUE"}

POSITION_FUNCTIONS(fnName, sourceRow, rs, args, values) ==
    CASE fnName = "LEAD" ->
            OrNull(ElementAt(values, PlusInteger(Delta(args), IndexOf(rs, sourceRow))))
      [] fnName = "LAG" ->
            OrNull(ElementAt(values, Minus(Num(IndexOf(rs, sourceRow)), Delta(args))))
      [] fnName = "FIRST_VALUE" -> ElementAt(values, Num(0))
      [] fnName = "LAST_VALUE" -> ElementAt(values, Num(Len(values) - 1))
      [] fnName = "NTH_VALUE" ->
            OrNull(ElementAt(values, IF Len(args) > 1
                                     THEN PlusInteger(ToNumber(Str(args[2])), -1)
                                     ELSE NaN))

----------------------------------------------------------------------------
(* Selection evaluator (#mapSelectionToRow), the builtin calls              *)

\* What evaluating a column gives: a value, or the error it throws.
Value(v) == [threw |-> FALSE, error |-> "", value |-> v]
Throw(error) == [threw |-> TRUE, error |-> error, value |-> undefined]

\* Mutant: no window needs an orderBy.
NoOrderByCheck(windowSpec) == FALSE

\* orderByCheck(windowSpec, fnName) throws
orderByCheck(windowSpec) == windowSpec.orderBy = NoOrder

\* The window of a column: none (<<>>), <<the spec>>, or bad = TRUE for a name
\* that is not registered.  A pair with a name or a string with an OVER
\* clause names a window, "()" being the empty spec.
WindowOf(col) ==
    IF col.over # ""
    THEN IF col.over = "()"
         THEN [bad |-> FALSE, spec |-> <<WindowSpec(NoField, NoOrder, <<>>)>>]
         ELSE IF col.over \in DOMAIN windowSpecs
         THEN [bad |-> FALSE, spec |-> <<windowSpecs[col.over]>>]
         ELSE [bad |-> TRUE, spec |-> <<>>]
    ELSE [bad |-> FALSE, spec |-> col.spec]

\* value = rows.indexOf(sourceRow) + 1, rows being the frame
RowNumber(frame, sourceRow) == Num(IndexOf(frame, sourceRow) + 1)

\* The dispatch on fnName, `frame` being the rows applyWindow left and
\* windowSpec <<>> or <<the spec>>
Dispatch(col, sourceRow, frame, windowSpec) ==
    LET args == <<col.arg>> \o col.rest
    IN  CASE col.fn = "ROW_NUMBER" -> Value(RowNumber(frame, sourceRow))
          [] col.fn \in AggregateNames ->
                Value(AGGREGATE_FUNCTIONS(col.fn, Pluck(frame, col.arg)))
          [] col.fn \in RankNames /\ windowSpec # <<>> ->
                IF orderByCheck(windowSpec[1]) THEN Throw("ORDER BY required")
                ELSE CHOOSE out \in
                        {IF r.threw THEN Throw("TypeError") ELSE Value(r.value) :
                         r \in {WINDOW_FUNCTIONS(col.fn, sourceRow, frame, args,
                                                 windowSpec[1])}} : TRUE
          [] col.fn \in PositionNames /\ windowSpec # <<>> ->
                IF orderByCheck(windowSpec[1]) THEN Throw("ORDER BY required")
                ELSE Value(POSITION_FUNCTIONS(col.fn, sourceRow, frame, args,
                                              Pluck(frame, col.arg)))
          [] col.fn \in StatNames ->
                Value(STAT_FUNCTIONS(col.fn, Pluck(frame, col.arg)))
          [] OTHER -> Throw("Bad Func")

\* The rows the call works on: rs, or what applyWindow makes of them
Applied(rs, windowSpec, sourceRow) ==
    IF windowSpec = <<>> THEN [threw |-> FALSE, rows |-> rs]
    ELSE applyWindow(rs, windowSpec[1], sourceRow)

\* The body of the loop behind the window lookup: the window is applied,
\* then the call is dispatched.
Windowed(col, sourceRow, rs, windowSpec) ==
    CHOOSE r \in {IF applied.threw
                  THEN Throw(IF ComparatorThrows(windowSpec[1],
                                                 PartitionRows(rs, windowSpec[1], sourceRow))
                             THEN "TypeError" ELSE "Window unit")
                  ELSE Dispatch(col, sourceRow, applied.rows, windowSpec) :
                  applied \in {Applied(rs, windowSpec, sourceRow)}} : TRUE

\* The body of the loop for one builtin call: the window is looked up and
\* applied, then the call is dispatched.
BuiltinValue(col, sourceRow, rs) ==
    CHOOSE r \in {IF window.bad THEN Throw("Bad Window") ELSE Windowed(col, sourceRow, rs, window.spec) :
                  window \in {WindowOf(col)}} : TRUE

\* What #mapSelectionToRow is in the model when it throws: no row, the error
Thrown(error) == [id |-> -3, e |-> <<Entry("error", Str(error))>>]
IsThrown(row) == row.id = -3

\* The loop over Object.entries(selection), from column j on.
RECURSIVE MapColumns(_, _, _, _, _)
MapColumns(out, cols, j, sourceRow, groupRows) ==
    IF j > Len(cols) THEN out
    ELSE LET col == cols[j]
         IN  IF col.fn # ""
             THEN CHOOSE row \in
                     {IF r.threw THEN Thrown(r.error)
                      ELSE MapColumns(Put(out, col.alias, r.value), cols, j + 1,
                                      sourceRow, groupRows) :
                      r \in {BuiltinValue(col, sourceRow, groupRows)}} : TRUE
             ELSE MapColumns(IF sourceRow = NoRow THEN out
                             ELSE IF col.arg = "*" THEN Assign(out, sourceRow, 1)
                             ELSE Put(out, col.alias, Get(sourceRow, col.arg)),
                             cols, j + 1, sourceRow, groupRows)

\* A projected row is a new object; the pipeline never looks at its identity.
mapSelectionToRow(sourceRow, sel, index, groupRows) ==
    IF ~sel.set THEN sourceRow
    ELSE MapColumns(Row(0, <<>>), sel.cols, 1, sourceRow, groupRows)

----------------------------------------------------------------------------
(* Set algebra: the generators except, intersect and unionAll.  A generator *)
(* is at pc "start" before its first next(), "suspended" at a yield and     *)
(* "done" behind its end; a and b count the rows taken from resultsA and    *)
(* resultsB, out is what the next() returned.                               *)

\* except: the for loop from row a of resultsA to its next yield
RECURSIVE ExceptLoop(_, _, _)
ExceptLoop(resultsA, a, cache) ==
    IF a >= Len(resultsA) THEN [pc |-> "done", cache |-> cache, a |-> a, b |-> 0, out |-> <<>>]
    ELSE LET result == resultsA[a + 1]
         IN  IF ~isDistinct(cache, result) THEN ExceptLoop(resultsA, a + 1, cache)
             ELSE [pc |-> "suspended", cache |-> Append(cache, result), a |-> a + 1,
                   b |-> 0, out |-> <<result>>]

\* intersect: the for loop from row a of resultsA to its next yield
RECURSIVE IntersectLoop(_, _, _)
IntersectLoop(resultsA, a, cache) ==
    IF a >= Len(resultsA) THEN [pc |-> "done", cache |-> cache, a |-> a, b |-> 0, out |-> <<>>]
    ELSE LET result == resultsA[a + 1]
         IN  IF isDistinct(cache, result) THEN IntersectLoop(resultsA, a + 1, cache)
             ELSE [pc |-> "suspended", cache |-> cache, a |-> a + 1, b |-> 0,
                   out |-> <<result>>]

UnionAllOfFirst(resultsA, resultsB, a, b) ==
    IF a < Len(resultsA)
    THEN [pc |-> "suspended", cache |-> <<>>, a |-> a + 1, b |-> b, out |-> <<resultsA[a + 1]>>]
    ELSE [pc |-> "done", cache |-> <<>>, a |-> a, b |-> b, out |-> <<>>]

\* unionAll: the two for loops, to the next yield
UnionAllLoops(resultsA, resultsB, a, b) ==
    IF a < Len(resultsA)
    THEN [pc |-> "suspended", cache |-> <<>>, a |-> a + 1, b |-> b, out |-> <<resultsA[a + 1]>>]
    ELSE IF b < Len(resultsB)
    THEN [pc |-> "suspended", cache |-> <<>>, a |-> a, b |-> b + 1, out |-> <<resultsB[b + 1]>>]
    ELSE [pc |-> "done", cache |-> <<>>, a |-> a, b |-> b, out |-> <<>>]

\* The generator after a next() that ended as r.
SetContinue(r) ==
    /\ setGen' = [pc |-> r.pc, cache |-> r.cache, a |-> r.a, b |-> r.b]
    /\ ret' = ret \o r.out
    /\ UNCHANGED <<rows, builderVars, iterVars, dbVars, call>>

\* next() on except(resultsA, resultsB); the first one fills the cache
\* with the rows of resultsB.
except ==
    /\ call # <<>> /\ call.fn = "except" /\ setGen.pc \in {"start", "suspended"}
    /\ SetContinue(ExceptLoop(call.resultsA, setGen.a,
                              IF setGen.pc = "start" THEN call.resultsB ELSE setGen.cache))

\* next() on intersect(resultsA, resultsB)
intersect ==
    /\ call # <<>> /\ call.fn = "intersect" /\ setGen.pc \in {"start", "suspended"}
    /\ SetContinue(IntersectLoop(call.resultsA, setGen.a,
                                 IF setGen.pc = "start" THEN call.resultsB ELSE setGen.cache))

\* next() on unionAll(resultsA, resultsB)
unionAll ==
    /\ call # <<>> /\ call.fn = "unionAll" /\ setGen.pc \in {"start", "suspended"}
    /\ SetContinue(UnionAllLoops(call.resultsA, call.resultsB, setGen.a, setGen.b))

\* One next() on the generator fn(resultsA, resultsB) whose locals are gen
SetNext(fn, resultsA, resultsB, gen) ==
    CASE fn = "except" ->
            ExceptLoop(resultsA, gen.a, IF gen.pc = "start" THEN resultsB ELSE gen.cache)
      [] fn = "intersect" ->
            IntersectLoop(resultsA, gen.a, IF gen.pc = "start" THEN resultsB ELSE gen.cache)
      [] OTHER -> UnionAllLoops(resultsA, resultsB, gen.a, gen.b)

\* Every row the generator yields from gen on, in order
RECURSIVE SetDrain(_, _, _, _, _)
SetDrain(fn, resultsA, resultsB, gen, acc) ==
    CHOOSE rest \in
        {IF r.pc = "done" THEN acc
         ELSE SetDrain(fn, resultsA, resultsB,
                       [pc |-> r.pc, cache |-> r.cache, a |-> r.a, b |-> r.b],
                       acc \o r.out) :
         r \in {SetNext(fn, resultsA, resultsB, gen)}} : TRUE

----------------------------------------------------------------------------
(* The callbacks a caller registers.  They are inputs of the pipeline: a   *)
(* few pure predicates and join stages stand for the caller's functions.   *)

\* where() predicates, called as predicate(row, index)
Predicates == {"a is 1", "even index", "not first"}

Predicate(p, row, index) ==
    CASE p = "a is 1" -> StrictEquals(Get(row, "a"), Str("1"))
      [] p = "even index" -> index % 2 = 0
      [] p = "not first" -> index > 0

\* The `null` a join stage is called with after the last row.
NullRow == [id |-> -2, e |-> <<>>]

\* The table the join stages join with.
Other == <<Row(91, <<Entry("a", Str("1")), Entry("c", Str("x"))>>),
           Row(92, <<Entry("a", Str("3")), Entry("c", Str("y"))>>)>>

\* {...rowA, ...rowB}
Spread(rowA, rowB) == Assign(Assign(Row(0, <<>>), rowA, 1), rowB, 1)

\* The rows of `table` that `keep` accepts, each merged onto rowA.
Matches(rowA, table, keep(_)) ==
    LET kept == SelectSeq(table, keep)
    IN  [j \in 1..Len(kept) |-> Spread(rowA, kept[j])]

\* The closure joinOn() registers, with on = (rowA, rowB) => rowA.a === rowB.a:
\* the matches of a row, and an empty list for null.
joinOn(rowA) ==
    IF rowA = NullRow THEN <<>>
    ELSE LET on(rowB) == StrictEquals(Get(rowA, "a"), Get(rowB, "a"))
         IN  Matches(rowA, Other, on)

JoinStages == {"joinOn", "right", "nothing"}

\* What stage `kind` returns when called with `arg`, having been called with
\* the rows `seen` before.  [some |-> FALSE] is a null or undefined return.
\*  - "joinOn": the closure of joinOn()
\*  - "right": a RIGHT JOIN callback: the matches of a row, and for null the
\*    rows of Other that no row matched
\*  - "nothing": a callback that returns null
JoinResult(kind, arg, seen) ==
    CASE kind = "joinOn" -> [some |-> TRUE, list |-> joinOn(arg)]
      [] kind = "right" ->
            IF arg = NullRow
            THEN LET unmatched(rowB) ==
                        \A j \in 1..Len(seen) :
                            ~StrictEquals(Get(seen[j], "a"), Get(rowB, "a"))
                 IN  [some |-> TRUE, list |-> Matches(NullRow, Other, unmatched)]
            ELSE [some |-> TRUE, list |-> joinOn(arg)]
      [] kind = "nothing" -> [some |-> FALSE, list |-> <<>>]

----------------------------------------------------------------------------
(* #iter: the join loop                                                     *)

\* joinResult && newRows.push(...joinResult)
Push(newRows, joinResult) ==
    IF joinResult.some THEN newRows \o joinResult.list ELSE newRows

\* Rows that a stage returned are new objects: number them by stage and place.
Renumber(s, newRows) ==
    [j \in 1..Len(newRows) |-> [newRows[j] EXCEPT !.id = s * 100 + j]]

\* Mutant: the stage is not called once more with null after the last row.
RECURSIVE JoinStageWithoutNull(_, _, _, _, _)
JoinStageWithoutNull(s, input, j, newRows, log) ==
    IF j > Len(input)
    THEN [rows |-> newRows, log |-> log]
    ELSE JoinStageWithoutNull(s, input, j + 1,
                   Push(newRows, JoinResult(join[s], input[j], SubSeq(input, 1, j - 1))),
                   Append(log, [stage |-> s, arg |-> input[j]]))

\* for (const row of rows) { join(row) }, from row j on, then join(null).
RECURSIVE JoinStage(_, _, _, _, _)
JoinStage(s, input, j, newRows, log) ==
    IF j > Len(input)
    THEN [rows |-> Push(newRows, JoinResult(join[s], NullRow, input)),
          log |-> Append(log, [stage |-> s, arg |-> NullRow])]
    ELSE JoinStage(s, input, j + 1,
                   Push(newRows, JoinResult(join[s], input[j], SubSeq(input, 1, j - 1))),
                   Append(log, [stage |-> s, arg |-> input[j]]))

\* for (const join of this.#join), from stage s on.
RECURSIVE JoinLoop(_, _, _, _)
JoinLoop(s, input, log, inputs) ==
    IF s > Len(join)
    THEN [rows |-> input, log |-> log, inputs |-> Append(inputs, input)]
    ELSE LET r == JoinStage(s, input, 1, <<>>, log)
         IN  JoinLoop(s + 1, Renumber(s, r.rows), r.log, Append(inputs, input))

----------------------------------------------------------------------------
(* filter(): the chain of lazy filter generators                            *)

\* Mutant: every predicate is given the position of the row in the input of
\* the first filter instead of the counter of its own filter.
RECURSIVE ChainWithSourceIndex(_, _, _, _)
ChainWithSourceIndex(item, k, fi, log) ==
    IF k > Len(where) THEN [pass |-> TRUE, fIndex |-> fi, log |-> log]
    ELSE LET at == IF k = 1 THEN fi[1] ELSE fi[1] - 1
             ok == Predicate(where[k], item, at)
             fi2 == [fi EXCEPT ![k] = @ + 1]
             log2 == Append(log, [pred |-> k, row |-> item, index |-> at])
         IN  IF ok THEN ChainWithSourceIndex(item, k + 1, fi2, log2)
             ELSE [pass |-> FALSE, fIndex |-> fi2, log |-> log2]

\* One item offered to predicate k and, if it passes, to the ones after it.
RECURSIVE Chain(_, _, _, _)
Chain(item, k, fi, log) ==
    IF k > Len(where) THEN [pass |-> TRUE, fIndex |-> fi, log |-> log]
    ELSE LET ok == Predicate(where[k], item, fi[k])
             fi2 == [fi EXCEPT ![k] = @ + 1]
             log2 == Append(log, [pred |-> k, row |-> item, index |-> fi[k]])
         IN  IF ok THEN Chain(item, k + 1, fi2, log2)
             ELSE [pass |-> FALSE, fIndex |-> fi2, log |-> log2]

\* One next() on the outermost filter: items are taken from src, after the
\* first p of them, until one passes every predicate or src is exhausted.
RECURSIVE NextFiltered(_, _, _, _)
NextFiltered(src, p, fi, log) ==
    IF p >= Len(src)
    THEN [has |-> FALSE, item |-> NoRow, pulled |-> p, fIndex |-> fi, predCalls |-> log]
    ELSE LET c == Chain(src[p + 1], 1, fi, log)
         IN  IF c.pass
             THEN [has |-> TRUE, item |-> src[p + 1], pulled |-> p + 1,
                   fIndex |-> c.fIndex, predCalls |-> c.log]
             ELSE NextFiltered(src, p + 1, c.fIndex, c.log)

\* [...rows]: the filter chain read to its end.
RECURSIVE Materialise(_, _, _, _, _)
Materialise(src, p, fi, log, acc) ==
    LET nx == NextFiltered(src, p, fi, log)
    IN  IF nx.has
        THEN Materialise(src, nx.pulled, nx.fIndex, nx.predCalls, Append(acc, nx.item))
        ELSE [list |-> acc, pulled |-> nx.pulled, fIndex |-> nx.fIndex,
              predCalls |-> nx.predCalls]

----------------------------------------------------------------------------
(* groupRows                                                                *)

\* Mutant: only the key inserted last is found, so that rows are grouped
\* with their neighbours only.
KeyIndexOfLastKey(keys, value) ==
    IF keys # <<>> /\ keys[Len(keys)] = value THEN Len(keys) ELSE 0

\* The position of `value` among the Map's keys, 0 when it is not a key.
KeyIndex(keys, value) ==
    IF \E j \in 1..Len(keys) : keys[j] = value
    THEN CHOOSE j \in 1..Len(keys) : keys[j] = value
    ELSE 0

\* The loop of groupRows from row j on: `keys` are the Map's keys in
\* insertion order and groups[j] is the array stored under keys[j].
RECURSIVE GroupLoop(_, _, _, _, _)
GroupLoop(rs, j, discriminator, keys, groups) ==
    IF j > Len(rs) THEN groups
    ELSE LET value == Get(rs[j], discriminator)
             at == KeyIndex(keys, value)
         IN  IF at = 0
             THEN GroupLoop(rs, j + 1, discriminator, Append(keys, value),
                            Append(groups, <<rs[j]>>))
             ELSE GroupLoop(rs, j + 1, discriminator, keys,
                            [groups EXCEPT ![at] = Append(@, rs[j])])

groupRows(rs, discriminator) == GroupLoop(rs, 1, discriminator, <<>>, <<>>)

----------------------------------------------------------------------------
(* #iter: grouping decision and the SELECT loop                             *)

\* The builder fields the SELECT loop reads.
\* this.#sort when orderBy was never called
NoSort == <<>>

\* The comparators orderBy makes of a string ("-f", "+f", "f") and one
\* given as a function, (a, b) => (+a.n % 2) - (+b.n % 2).
Comparator(prefix, field) == [prefix |-> prefix, field |-> field]
ParityOfN == Comparator("function", "n")

\* String(v)
String(v) ==
    CASE v.t = "string" -> v.s
      [] v.t = "number" -> JoinString(v)
      [] v.t = "NaN" -> "NaN"
      [] v.t = "null" -> "null"
      [] OTHER -> "undefined"

\* x - y for two numbers that may be NaN; a NaN result sorts as 0.
Difference(x, y) == IF x.t = "NaN" \/ y.t = "NaN" THEN 0 ELSE x.n - y.n

SortCompareAscending(comparator, rowA, rowB) ==
    Difference(ToNumber(Get(rowA, comparator.field)), ToNumber(Get(rowB, comparator.field)))

\* this.#sort(rowA, rowB), as a sign
SortCompare(comparator, rowA, rowB) ==
    CASE comparator.prefix = "-" ->
            Difference(ToNumber(Get(rowB, comparator.field)), ToNumber(Get(rowA, comparator.field)))
      [] comparator.prefix = "+" ->
            Difference(ToNumber(Get(rowA, comparator.field)), ToNumber(Get(rowB, comparator.field)))
      [] comparator.prefix = "" ->
            LocaleRank[String(Get(rowA, comparator.field))]
                - LocaleRank[String(Get(rowB, comparator.field))]
      [] OTHER ->
            Difference(Num(ToNumber(Get(rowA, "n")).n % 2), Num(ToNumber(Get(rowB, "n")).n % 2))

\* x put into a sorted list behind every row that does not sort after it.
RECURSIVE InsertBy(_, _, _)
InsertBy(sorted, x, comparator) ==
    IF sorted = <<>> THEN <<x>>
    ELSE IF SortCompare(comparator, sorted[Len(sorted)], x) > 0
    THEN Append(InsertBy(SubSeq(sorted, 1, Len(sorted) - 1), x, comparator),
                sorted[Len(sorted)])
    ELSE Append(sorted, x)

\* [...rows].sort(this.#sort): a stable sort.
RECURSIVE SortBy(_, _, _)
SortBy(rs, comparator, sorted) ==
    IF rs = <<>> THEN sorted
    ELSE SortBy(Tail(rs), comparator, InsertBy(sorted, Head(rs), comparator))

Query == [selection |-> selection, offset |-> offset, limit |-> limit,
          distinct |-> distinct]

\* Mutant: the loop goes on to the next item of rowGroups before the limit
\* is tested.
LimitReachedAfterNext(q, j) == IsFinite(q.limit) /\ j - q.offset > q.limit.n

\* i - this.#offset >= this.#limit
LimitReached(q, j) == IsFinite(q.limit) /\ j - q.offset >= q.limit.n

\* The generator's locals when the SELECT loop is entered: the join loop has
\* run, the filters are chained, the rows are sorted and rowGroups is decided.
\* A sorted array of rows that is iterated row by row is kept in rowGroups as
\* the one-row groups [sourceRow] the loop body makes of its rows.
\* allRowGroup = [...rows] reads `rows` to its end: when `rows` is the filter
\* chain, a generator, the loop that follows finds it spent; an array is
\* iterated again from its start.
Setup ==
    LET joined == JoinLoop(1, rows, <<>>, <<>>)
        fi0 == [k \in 1..Len(where) |-> 0]
        all == Materialise(joined.rows, 0, fi0, <<>>, <<>>)
        eager == sort # NoSort \/ groupBy # NoField \/ hasAggregates
        windowed == groupBy = NoField /\ ~hasAggregates /\ haveWindowFunctions
        spent == windowed /\ sort = NoSort /\ where # <<>>
        sorted == IF sort # NoSort THEN SortBy(all.list, sort, <<>>) ELSE all.list
    IN  [rowsIn |-> joined.rows,
         joinCalls |-> joined.log,
         stageRows |-> joined.inputs,
         lazy |-> ~eager,
         rowGroups |-> IF groupBy # NoField THEN groupRows(sorted, groupBy)
                       ELSE IF hasAggregates THEN <<sorted>>
                       ELSE IF sort # NoSort THEN [j \in 1..Len(sorted) |-> <<sorted[j]>>]
                       ELSE <<>>,
         allRowGroup |-> IF windowed THEN <<sorted>> ELSE <<>>,
         pulled |-> IF eager \/ spent THEN all.pulled ELSE 0,
         fIndex |-> IF eager \/ spent THEN all.fIndex ELSE fi0,
         predCalls |-> IF eager \/ spent THEN all.predCalls ELSE <<>>,
         g |-> 0,
         distinctCache |-> <<>>,
         i |-> 0]

\* for (const rowGroupOrRow of rowGroups): the next item, if there is one,
\* with sourceRow and rowGroup as the loop body sets them.
NextGroup(st) ==
    IF st.lazy
    THEN LET nx == NextFiltered(st.rowsIn, st.pulled, st.fIndex, st.predCalls)
         IN  [has |-> nx.has, sourceRow |-> nx.item,
              rowGroup |-> IF st.allRowGroup # <<>> THEN st.allRowGroup[1]
                           ELSE <<nx.item>>,
              st |-> [st EXCEPT !.pulled = nx.pulled, !.fIndex = nx.fIndex,
                                !.predCalls = nx.predCalls]]
    ELSE IF st.g >= Len(st.rowGroups)
    THEN [has |-> FALSE, sourceRow |-> NoRow, rowGroup |-> <<>>, st |-> st]
    ELSE LET rowGroupOrRow == st.rowGroups[st.g + 1]
         IN  [has |-> TRUE,
              sourceRow |-> IF rowGroupOrRow = <<>> THEN NoRow ELSE rowGroupOrRow[1],
              rowGroup |-> IF st.allRowGroup # <<>> THEN st.allRowGroup[1]
                           ELSE rowGroupOrRow,
              st |-> [st EXCEPT !.g = @ + 1]]

\* Mutant: the offset test is strict, so one row too many is skipped.
PassedOffsetStrict(q, st) == st.i > q.offset

\* Mutant: the offset is tested against the position of the row in the input
\* of the loop, so that rows skipped as duplicates use it up.
PassedOffsetOfInput(q, st) == (IF st.lazy THEN st.pulled ELSE st.g) - 1 >= q.offset

\* if (i >= this.#offset) yield result
PassedOffset(q, st) == st.i >= q.offset

\* The DISTINCT test of the loop body: TRUE when `result` is to be skipped.
SkipDuplicate(q, st, result) == q.distinct /\ ~isDistinct(st.distinctCache, result)

RECURSIVE Loop(_, _), LoopBody(_, _), AfterMap(_, _, _), AfterYield(_, _)

\* The SELECT loop from the top of an iteration to the next yield (pc
\* "suspended", the row in out), to the generator's return (pc "done") or to
\* the error #mapSelectionToRow throws (pc "error").
Loop(q, st) == CHOOSE r \in {LoopBody(q, nx) : nx \in {NextGroup(st)}} : TRUE

\* The loop body for the item nx of rowGroups, if there is one.
LoopBody(q, nx) ==
    IF ~nx.has THEN [pc |-> "done", out |-> <<>>, st |-> nx.st]
    ELSE CHOOSE r \in {AfterMap(q, nx.st, result) :
                          result \in {mapSelectionToRow(nx.sourceRow, q.selection,
                                                        nx.st.i + 1, nx.rowGroup)}} : TRUE

\* The loop body behind the call of #mapSelectionToRow, which returned
\* `result` or threw.
AfterMap(q, st, result) ==
    IF IsThrown(result) THEN [pc |-> "error", out |-> <<>>, st |-> st]
    ELSE IF SkipDuplicate(q, st, result) THEN Loop(q, st)
    ELSE LET st2 == IF q.distinct
                    THEN [st EXCEPT !.distinctCache = Append(@, result)]
                    ELSE st
         IN  IF PassedOffset(q, st2)
             THEN [pc |-> "suspended", out |-> <<result>>, st |-> st2]
             ELSE AfterYield(q, st2)

\* The rest of an iteration: i++, then the FETCH FIRST test.
AfterYield(q, st) ==
    LET st2 == [st EXCEPT !.i = @ + 1]
    IN  IF LimitReached(q, st2.i) THEN [pc |-> "done", out |-> <<>>, st |-> st2]
        ELSE Loop(q, st2)

BeginWithoutLimitTest(q) == Loop(q, Setup)

BeginWithSharedCache(q) == Loop(q, [Setup EXCEPT !.distinctCache = distinctCache])

\* The generator run from its first next() on.
Begin(q) ==
    IF q.limit = Finite(0)
    THEN [pc |-> "done", out |-> <<>>,
          st |-> [Setup EXCEPT !.rowsIn = <<>>, !.joinCalls = <<>>, !.stageRows = <<>>,
                               !.lazy = TRUE, !.rowGroups = <<>>, !.allRowGroup = <<>>,
                               !.pulled = 0, !.predCalls = <<>>]]
    ELSE Loop(q, Setup)

\* Every row a consumer gets that calls next() until the generator is done,
\* or until it throws.
RECURSIVE Drain(_, _, _)
Drain(q, r, acc) ==
    IF r.pc \in {"done", "error"} THEN acc \o r.out
    ELSE Drain(q, AfterYield(q, r.st), acc \o r.out)

\* [...query] for a query with the builder fields q.
toArray(q) == Drain(q, Begin(q), <<>>)

----------------------------------------------------------------------------
(* Actions: the builder methods                                             *)

\* join(joinSpec) and joinOn(other, on)
Join(kind) ==
    /\ pc = "build"
    /\ Len(join) < MaxJoins
    /\ join' = Append(join, kind)
    /\ UNCHANGED <<rows, where, groupBy, selection, offset, limit, distinct, sort>>
    /\ UNCHANGED <<iterVars, helperVars, windowSpecs>>

\* where(predicate)
Where(predicate) ==
    /\ pc = "build"
    /\ Len(where) < MaxWhere
    /\ where' = Append(where, predicate)
    /\ UNCHANGED <<rows, join, groupBy, selection, offset, limit, distinct, sort>>
    /\ UNCHANGED <<iterVars, helperVars, windowSpecs>>

\* groupBy(discriminator), with a field name
GroupBy(discriminator) ==
    /\ pc = "build"
    /\ groupBy' = discriminator
    /\ UNCHANGED <<rows, join, where, selection, offset, limit, distinct, sort>>
    /\ UNCHANGED <<iterVars, helperVars, windowSpecs>>

\* select(selection)
Select(sel) ==
    /\ pc = "build"
    /\ selection' = sel
    /\ UNCHANGED <<rows, join, where, groupBy, offset, limit, distinct, sort>>
    /\ UNCHANGED <<iterVars, helperVars, windowSpecs>>

\* offset(rows)
Offset(k) ==
    /\ pc = "build"
    /\ offset' = k
    /\ UNCHANGED <<rows, join, where, groupBy, selection, limit, distinct, sort>>
    /\ UNCHANGED <<iterVars, helperVars, windowSpecs>>

\* fetchFirst(rows)
FetchFirst(k) ==
    /\ pc = "build"
    /\ limit' = Finite(k)
    /\ UNCHANGED <<rows, join, where, groupBy, selection, offset, distinct, sort>>
    /\ UNCHANGED <<iterVars, helperVars, windowSpecs>>

\* orderBy(comparator): the comparator the argument stands for
OrderByRows(comparator) ==
    /\ pc = "build"
    /\ sort' = comparator
    /\ UNCHANGED <<rows, join, where, groupBy, selection, offset, limit, distinct>>
    /\ UNCHANGED <<iterVars, helperVars, windowSpecs>>

\* window(name, spec)
Window(name, spec) ==
    /\ pc = "build"
    /\ windowSpecs' = (name :> spec) @@ windowSpecs
    /\ UNCHANGED <<rows, join, where, groupBy, selection, offset, limit, distinct, sort>>
    /\ UNCHANGED <<iterVars, helperVars>>

\* distinct()
Distinct ==
    /\ pc = "build"
    /\ distinct' = TRUE
    /\ UNCHANGED <<rows, join, where, groupBy, selection, offset, limit, sort>>
    /\ UNCHANGED <<iterVars, helperVars, windowSpecs>>

----------------------------------------------------------------------------
(* Actions: the iterator of the query                                       *)

\* this.#internalIterator before the first getNextRow()
NoIterator == <<>>

\* The generator's locals, as a record.
Locals ==
    [rowsIn |-> rowsIn, joinCalls |-> joinCalls, stageRows |-> stageRows,
     lazy |-> lazy, rowGroups |-> rowGroups, allRowGroup |-> allRowGroup,
     pulled |-> pulled, fIndex |-> fIndex,
     predCalls |-> predCalls, g |-> g, distinctCache |-> distinctCache, i |-> i]

\* The generator's state after a next() that ended as r.
Continue(r) ==
    /\ pc' = r.pc
    /\ yielded' = yielded \o r.out
    /\ rowsIn' = r.st.rowsIn
    /\ joinCalls' = r.st.joinCalls
    /\ stageRows' = r.st.stageRows
    /\ lazy' = r.st.lazy
    /\ rowGroups' = r.st.rowGroups
    /\ allRowGroup' = r.st.allRowGroup
    /\ pulled' = r.st.pulled
    /\ fIndex' = r.st.fIndex
    /\ predCalls' = r.st.predCalls
    /\ g' = r.st.g
    /\ distinctCache' = r.st.distinctCache
    /\ i' = r.st.i
    /\ UNCHANGED <<rows, builderVars, internalIterator, helperVars>>

\* The first next() on query[Symbol.iterator](): the generator body runs from
\* its first line to its first yield, or to its end.
Start ==
    /\ pc = "build"
    /\ \E r \in {Begin(Query)} : Continue(r)

\* A later next(): the generator resumes after its yield.
Resume ==
    /\ pc = "suspended"
    /\ \E r \in {AfterYield(Query, Locals)} : Continue(r)

\* What a call of the query returned: the row of getNextRow() (NoRow for
\* undefined), the value of getNextValue(column), the rows of toArray().
Called(fn, column, row, value, rs) ==
    [fn |-> fn, column |-> column, row |-> row, value |-> value, rows |-> rs]

NextOfFreshIterator(it, q) == Begin(q)

\* this.#internalIterator.next(), the iterator made first when there is none
NextOfInternal(it, q) ==
    IF it = NoIterator THEN Begin(q)
    ELSE IF it.pc = "suspended" THEN AfterYield(q, it.st)
    ELSE [pc |-> "done", out |-> <<>>, st |-> it.st]

\* The row next() hands on: .value of the result, NoRow for undefined
ValueOfNext(r) == IF r.out = <<>> THEN NoRow ELSE r.out[1]

\* getNextRow()
GetNextRow ==
    /\ Len(ret) < MaxCalls
    /\ \E r \in {NextOfInternal(internalIterator, Query)} :
          /\ internalIterator' = [pc |-> r.pc, st |-> r.st]
          /\ ret' = Append(ret, Called("getNextRow", 0, ValueOfNext(r), undefined, <<>>))
    /\ UNCHANGED <<rows, builderVars, dbVars, call, setGen>>
    /\ UNCHANGED <<pc, rowsIn, pulled, fIndex, rowGroups, allRowGroup, lazy, g,
                   distinctCache, i, yielded, joinCalls, stageRows, predCalls>>

\* getNextValue(column), for a column number: getNextRow(), then the column
GetNextValue(column) ==
    /\ Len(ret) < MaxCalls
    /\ \E r \in {NextOfInternal(internalIterator, Query)} :
          /\ internalIterator' = [pc |-> r.pc, st |-> r.st]
          /\ ret' = Append(ret, Called("getNextValue", column, ValueOfNext(r),
                                       getNextValue(ValueOfNext(r), column), <<>>))
    /\ UNCHANGED <<rows, builderVars, dbVars, call, setGen>>
    /\ UNCHANGED <<pc, rowsIn, pulled, fIndex, rowGroups, allRowGroup, lazy, g,
                   distinctCache, i, yielded, joinCalls, stageRows, predCalls>>

\* toArray(): [...this], a new generator run to its end
ToArray ==
    /\ Len(ret) < MaxCalls
    /\ ret' = Append(ret, Called("toArray", 0, NoRow, undefined, toArray(Query)))
    /\ UNCHANGED <<rows, builderVars, iterVars, dbVars, call, setGen>>

\* Mutant: the source can be iterated again from its start.
SourceKept(it, q, r) == rows

\* A query whose #rows is a generator: `rows` holds the rows the generator has
\* still to yield.  What is left of it after a next() on the iterator `it`
\* that ended as r: nothing is taken when #iter returns at its limit test of
\* 0 or when `it` was done already; a generator suspended in the lazy loop
\* has taken the rows it pulled; every other run has read the source to its
\* end, or has closed it when the for-of loop was left by return or throw.
SourceAfter(it, q, r) ==
    IF q.limit = Finite(0) THEN rows
    ELSE IF it # NoIterator /\ it.pc # "suspended" THEN rows
    ELSE IF r.pc = "suspended" /\ r.st.lazy
    THEN SubSeq(r.st.rowsIn, r.st.pulled + 1, Len(r.st.rowsIn))
    ELSE <<>>

\* The suspended generator `it` reads the same source: behind the rows it
\* has pulled, it finds what the source has left.
OnSharedSource(it) ==
    IF it = NoIterator THEN it
    ELSE [it EXCEPT !.st.rowsIn = SubSeq(@, 1, it.st.pulled) \o rows]

\* getNextRow() on a query whose #rows is a generator
GetNextRowOfGenerator ==
    /\ Len(ret) < MaxExecutions
    /\ \E it \in {OnSharedSource(internalIterator)} :
          \E r \in {NextOfInternal(it, Query)} :
              /\ internalIterator' = [pc |-> r.pc, st |-> r.st]
              /\ ret' = Append(ret, Called("getNextRow", 0, ValueOfNext(r), undefined, <<>>))
              /\ rows' = SourceAfter(it, Query, r)
    /\ UNCHANGED <<builderVars, dbVars, call, setGen>>
    /\ UNCHANGED <<pc, rowsIn, pulled, fIndex, rowGroups, allRowGroup, lazy, g,
                   distinctCache, i, yielded, joinCalls, stageRows, predCalls>>

\* toArray() on a query whose #rows is a generator: the new #iter generator
\* runs to its end on what the source has left.
ToArrayOfGenerator ==
    /\ Len(ret) < MaxExecutions
    /\ ret' = Append(ret, Called("toArray", 0, NoRow, undefined, toArray(Query)))
    /\ rows' = SourceAfter(NoIterator, Query, [pc |-> "done"])
    /\ UNCHANGED <<builderVars, iterVars, dbVars, call, setGen>>

----------------------------------------------------------------------------
(* CSVDB: the parsed-row cache and the generators of CSVDB.#iter.  A data  *)
(* line is kept as the list of its fields.  A generator is at pc "start"   *)
(* before its first next(), "cached" at the yield of its first loop,       *)
(* "parsing" at the yield of its second loop and "done" behind its end;    *)
(* index is the position of the array iterator of the first loop, i the    *)
(* counter of the second loop, out what the generator has yielded.         *)

\* CSVDB.#headers
headers == <<"a">>

\* get rowCount()
rowCount == Len(rawLines)

\* zip(keys, values): values[i] is undefined behind the end of values
zip(keys, values) ==
    [j \in 1..Len(keys) |->
        Entry(keys[j], IF j <= Len(values) THEN Str(values[j]) ELSE undefined)]

\* The second loop of #iter at its test i < this.rowCount: the line is
\* parsed, the row is pushed to the cache and yielded.  A row is a new object
\* at every parse.
ParseFrom(it, at) ==
    IF at < rowCount
    THEN LET row == Row(Len(parsedRows) + 1, zip(headers, rawLines[at + 1]))
         IN  [it |-> [it EXCEPT !.pc = "parsing", !.i = at, !.out = Append(@, row)],
              parsedRows |-> Append(parsedRows, row),
              parses |-> Append(parses, at)]
    ELSE [it |-> [it EXCEPT !.pc = "done", !.i = at],
          parsedRows |-> parsedRows,
          parses |-> parses]

\* One next() on a generator of #iter.  The first loop is a for-of over the
\* cache array itself: its iterator ends when its index has reached the
\* length the array has at that moment.
DbNext(it) ==
    IF it.pc \in {"start", "cached"}
    THEN IF it.index < Len(parsedRows)
         THEN [it |-> [it EXCEPT !.pc = "cached", !.index = @ + 1,
                                 !.out = Append(@, parsedRows[it.index + 1])],
               parsedRows |-> parsedRows,
               parses |-> parses]
         ELSE ParseFrom(it, Len(parsedRows))
    ELSE ParseFrom(it, it.i + 1)

\* db[Symbol.iterator]()
Iterate ==
    /\ Len(dbIterators) < MaxIterators
    /\ dbIterators' = Append(dbIterators,
                             [pc |-> "start", index |-> 0, i |-> 0, out |-> <<>>])
    /\ UNCHANGED <<rows, builderVars, iterVars, call, setGen, ret>>
    /\ UNCHANGED <<rawLines, parsedRows, parses>>

\* next() on the k-th generator
NextOfDb(k) ==
    /\ k \in 1..Len(dbIterators)
    /\ dbIterators[k].pc # "done"
    /\ \E r \in {DbNext(dbIterators[k])} :
          /\ dbIterators' = [dbIterators EXCEPT ![k] = r.it]
          /\ parsedRows' = r.parsedRows
          /\ parses' = r.parses
    /\ UNCHANGED <<rows, builderVars, iterVars, call, setGen, ret, rawLines>>

----------------------------------------------------------------------------
(* Specifications                                                           *)

\* The sequences of at most MaxRows rows over `data`, each row its own object.
Sources(data) ==
    UNION {{[j \in 1..n |-> Row(j, f[j])] : f \in [1..n -> data]} : n \in 0..MaxRows}

\* new CSVDBQuery(source): the fields of the query
QueryOver(source) ==
    /\ rows = source
    /\ join = <<>>
    /\ where = <<>>
    /\ groupBy = NoField
    /\ selection = NoSelection
    /\ offset = 0
    /\ limit = Infinity
    /\ distinct = FALSE
    /\ sort = NoSort
    /\ windowSpecs = <<>>
    /\ pc = "build"
    /\ rowsIn = <<>>
    /\ pulled = 0
    /\ fIndex = <<>>
    /\ rowGroups = <<>>
    /\ allRowGroup = <<>>
    /\ lazy = TRUE
    /\ g = 0
    /\ distinctCache = <<>>
    /\ i = 0
    /\ yielded = <<>>
    /\ joinCalls = <<>>
    /\ stageRows = <<>>
    /\ predCalls = <<>>
    /\ internalIterator = NoIterator

\* new CSVDBQuery(source) for a source that is no CSVDB
New(source) ==
    /\ QueryOver(source)
    /\ rawLines = <<>>
    /\ parsedRows = <<>>
    /\ dbIterators = <<>>
    /\ parses = <<>>

\* No helper is called on its own.
NoGen == [pc |-> "none", cache |-> <<>>, a |-> 0, b |-> 0]

NoCall == call = <<>> /\ ret = <<>> /\ setGen = NoGen

\* Rows of any iterable: the key sets differ and a value may be undefined.
MixedData ==
    {<<Entry("a", Str("1"))>>, <<Entry("a", Str("2"))>>,
     <<Entry("a", undefined)>>, <<Entry("b", Str("1"))>>}

PlainSelections == {SelectList(<<Field("a")>>), SelectList(<<Field("*")>>)}

\* A query over any rows with select, offset, fetchFirst and distinct,
\* iterated to its end.
Init == NoCall /\ \E source \in Sources(MixedData) : New(source)

Next ==
    \/ \E sel \in PlainSelections : Select(sel)
    \/ \E k \in 1..MaxOffset : Offset(k)
    \/ \E k \in 0..MaxLimit : FetchFirst(k)
    \/ Distinct
    \/ Start
    \/ Resume

Spec == Init /\ [][Next]_vars

\* A query over rows with a numeric column and join stages, iterated to its
\* end.
JoinData == {<<Entry("a", Str("1"))>>, <<Entry("a", Str("2"))>>, <<Entry("a", Str("3"))>>}

InitJoin == NoCall /\ \E source \in Sources(JoinData) : New(source)

NextJoin ==
    \/ \E kind \in JoinStages : Join(kind)
    \/ \E k \in 0..MaxLimit : FetchFirst(k)
    \/ Start
    \/ Resume

SpecJoin == InitJoin /\ [][NextJoin]_vars

\* isSame called on two rows.
CallIsSame ==
    /\ call # <<>> /\ call.fn = "isSame" /\ ret = <<>>
    /\ ret' = <<isSame(call.rowA, call.rowB)>>
    /\ UNCHANGED <<rows, builderVars, iterVars, dbVars, call, setGen>>

\* The rows of at most two properties "a" and "b", in either insertion order.
SameValues == {Str("1"), Str("2"), undefined, NaN}

SameData ==
    {<<>>}
    \cup {<<Entry(k, v)>> : k \in {"a", "b"}, v \in SameValues}
    \cup {<<Entry(ks[1], v), Entry(ks[2], w)>> :
            ks \in {<<"a", "b">>, <<"b", "a">>}, v \in SameValues, w \in SameValues}

InitSame ==
    /\ New(<<>>)
    /\ ret = <<>> /\ setGen = NoGen
    /\ \E rowA \in SameData, rowB \in SameData :
          call = [fn |-> "isSame", rowA |-> Row(1, rowA), rowB |-> Row(2, rowB)]

NextSame == CallIsSame

SpecSame == InitSame /\ [][NextSame]_vars

\* A query over rows with where predicates, iterated to its end.
WhereData == {<<Entry("a", Str("1"))>>, <<Entry("a", Str("2"))>>}

InitWhere == NoCall /\ \E source \in Sources(WhereData) : New(source)

NextWhere ==
    \/ \E predicate \in Predicates : Where(predicate)
    \/ \E k \in 0..MaxLimit : FetchFirst(k)
    \/ Start
    \/ Resume

SpecWhere == InitWhere /\ [][NextWhere]_vars

\* A query over the rows of a table with where, groupBy and select, iterated
\* to its end.
GroupData ==
    {<<Entry("a", Str("1")), Entry("b", Str("1"))>>,
     <<Entry("a", Str("1")), Entry("b", Str("2"))>>,
     <<Entry("a", Str("2")), Entry("b", Str("1"))>>}

GroupSelections ==
    {SelectList(<<Builtin("COUNT", "*")>>),
     SelectList(<<Field("a"), Builtin("COUNT", "*")>>),
     SelectList(<<Builtin("SUM", "a")>>),
     SelectList(<<Builtin("AVG", "a")>>),
     SelectList(<<Builtin("LISTAGG", "a")>>),
     SelectList(<<Field("a")>>)}

InitGroup == NoCall /\ \E source \in Sources(GroupData) : New(source)

NextGroupBy ==
    \/ Where("a is 1")
    \/ \E discriminator \in {"a", "b"} : GroupBy(discriminator)
    \/ \E sel \in GroupSelections : Select(sel)
    \/ Start
    \/ Resume

SpecGroup == InitGroup /\ [][NextGroupBy]_vars

\* applyWindow called for a row of a row group.
CallApplyWindow ==
    /\ call # <<>> /\ call.fn = "applyWindow" /\ ret = <<>>
    /\ ret' = <<applyWindow(call.rows, call.windowSpec, call.sourceRow)>>
    /\ UNCHANGED <<rows, builderVars, iterVars, dbVars, call, setGen>>

\* "RANK() OVER win" evaluated for the source row: applyWindow has returned
\* the frame, orderByCheck passes, RANK is applied to the frame.
CallRank ==
    /\ call # <<>> /\ call.fn = "applyWindow" /\ Len(ret) = 1
    /\ ~ret[1].threw
    /\ call.windowSpec.orderBy # NoOrder
    /\ ret' = Append(ret, RANK(call.sourceRow, ret[1].rows, call.windowSpec))
    /\ UNCHANGED <<rows, builderVars, iterVars, dbVars, call, setGen>>

WindowData == {<<Entry("b", Str("2"))>>, <<Entry("b", Str("10"))>>}

FramingStarts ==
    {Num(k) : k \in (-MaxFrame)..MaxFrame} \cup {Str("UNBOUNDED PRECEDING"), Str("CURRENT ROW")}

FramingEnds ==
    {Num(k) : k \in (-MaxFrame)..MaxFrame} \cup {Str("UNBOUNDED FOLLOWING"), Str("CURRENT ROW")}

Framings == {<<>>} \cup {<<"ROWS", start, end>> : start \in FramingStarts, end \in FramingEnds}

FullFrame == <<"ROWS", Str("UNBOUNDED PRECEDING"), Str("UNBOUNDED FOLLOWING")>>

\* The windows applyWindow is called with: every framing for "+b", no
\* framing and the full frame for "b" and "-b".
Windows ==
    {WindowSpec(NoField, OrderBy("+", "b"), framing) : framing \in Framings}
    \cup {WindowSpec(NoField, OrderBy(prefix, "b"), framing) :
              prefix \in {"", "-"}, framing \in {<<>>, FullFrame}}

InitWindow ==
    /\ New(<<>>)
    /\ ret = <<>> /\ setGen = NoGen
    /\ \E rs \in Sources(WindowData), windowSpec \in Windows :
          \E j \in 1..Len(rs) :
              call = [fn |-> "applyWindow", rows |-> rs, sourceRow |-> rs[j],
                      windowSpec |-> windowSpec]

NextWindow == CallApplyWindow \/ CallRank

SpecWindow == InitWindow /\ [][NextWindow]_vars

\* Queries that sort: rows with a numeric string n, some of them repeated.
OrderData == {<<Entry("n", Str("1"))>>, <<Entry("n", Str("2"))>>, <<Entry("n", Str("10"))>>}

Comparators == {Comparator("-", "n"), Comparator("+", "n"), Comparator("", "n"), ParityOfN}

InitOrder == NoCall /\ \E source \in Sources(OrderData) : New(source)

NextOrder ==
    \/ \E comparator \in Comparators : OrderByRows(comparator)
    \/ \E predicate \in {"even index", "not first"} : Where(predicate)
    \/ GroupBy("n")
    \/ Start
    \/ Resume

SpecOrder == InitOrder /\ [][NextOrder]_vars

\* The set operations over two row sources whose rows may repeat, may hold
\* undefined and may have different keys.
SetData == {<<Entry("a", Str("1"))>>, <<Entry("a", undefined)>>, <<Entry("b", Str("1"))>>}

\* The rows of a second source: objects of their own
Second(source) == [j \in 1..Len(source) |-> [source[j] EXCEPT !.id = 10 + j]]

InitSet ==
    /\ New(<<>>)
    /\ ret = <<>>
    /\ setGen = [pc |-> "start", cache |-> <<>>, a |-> 0, b |-> 0]
    /\ \E fn \in {"except", "intersect", "unionAll"},
          resultsA \in Sources(SetData), resultsB \in Sources(SetData) :
          call = [fn |-> fn, resultsA |-> resultsA, resultsB |-> Second(resultsB)]

NextSet == except \/ intersect \/ unionAll

SpecSet == InitSet /\ [][NextSet]_vars

\* A query that is built and then read with getNextRow() and getNextValue().
PullData ==
    {<<Entry("a", Str("1")), Entry("b", Str("2"))>>,
     <<Entry("a", Str("2")), Entry("b", Str("1"))>>}

\* No call has executed the query yet.
Unexecuted == pc = "build" /\ internalIterator = NoIterator /\ ret = <<>>

InitPull == call = <<>> /\ ret = <<>> /\ setGen = NoGen
            /\ \E source \in Sources(PullData) : New(source)

NextPull ==
    \/ Unexecuted /\ \E k \in 1..MaxOffset : Offset(k)
    \/ Unexecuted /\ \E k \in 0..MaxLimit : FetchFirst(k)
    \/ GetNextRow
    \/ \E column \in {0, 1} : GetNextValue(column)

SpecPull == InitPull /\ [][NextPull]_vars

\* A query that is built and then executed several times: one for-of loop,
\* calls of toArray() and pulls with getNextRow(), in any interleaving.
InitRepeat == call = <<>> /\ ret = <<>> /\ setGen = NoGen
              /\ \E source \in Sources(PullData) : New(source)

NextRepeat ==
    \/ Unexecuted /\ \E k \in 1..MaxOffset : Offset(k)
    \/ Unexecuted /\ Distinct
    \/ Start
    \/ Resume
    \/ ToArray
    \/ GetNextRow

SpecRepeat == InitRepeat /\ [][NextRepeat]_vars

\* A query with join stages, predicates and a limit, iterated to its end.
InitLimit == NoCall /\ \E source \in Sources(WhereData) : New(source)

NextLimit ==
    \/ \E kind \in {"joinOn", "right"} : Join(kind)
    \/ \E predicate \in {"a is 1", "not first"} : Where(predicate)
    \/ \E k \in 0..MaxLimit : FetchFirst(k)
    \/ Start
    \/ Resume

SpecLimit == InitLimit /\ [][NextLimit]_vars

\* #mapSelectionToRow called for a row of a row group, with a selection of one
\* column.
CallMapSelectionToRow ==
    /\ call # <<>> /\ call.fn = "mapSelectionToRow" /\ ret = <<>>
    /\ ret' = <<mapSelectionToRow(call.sourceRow, call.selection, call.index, call.rows)>>
    /\ UNCHANGED <<rows, builderVars, iterVars, dbVars, call, setGen>>

\* window("win", spec) called on the query before its selection is evaluated.
RegisterWindow ==
    /\ call # <<>> /\ call.fn = "mapSelectionToRow" /\ ret = <<>>
    /\ windowSpecs = <<>>
    /\ call.window # <<>>
    /\ Window("win", call.window[1])

RangeFrame == <<"RANGE", Str("UNBOUNDED PRECEDING"), Str("CURRENT ROW")>>

\* Windows that have no orderBy.
UnorderedWindows ==
    {WindowSpec(partitionBy, NoOrder, framing) :
        partitionBy \in {NoField, "b"}, framing \in {<<>>, FullFrame, RangeFrame}}

\* Windows whose framing unit is not ROWS.
RangeWindows ==
    {WindowSpec(NoField, orderBy, framing) :
        orderBy \in {NoOrder, OrderBy("+", "b"), OrderBy("", "b")},
        framing \in {RangeFrame, <<"GROUPS", Num(-1), Num(1)>>}}

\* Ordered windows of every ROWS framing.
FramedWindows == {WindowSpec(NoField, OrderBy("+", "b"), framing) : framing \in Framings}

OrderedWindows ==
    {WindowSpec(partitionBy, OrderBy(prefix, "b"), framing) :
        partitionBy \in {NoField, "b"}, prefix \in {"+", ""}, framing \in {<<>>, FullFrame}}

\* The calls of the rank family and of the position family.
RankCalls ==
    {Builtin("RANK", ""), Builtin("DENSE_RANK", ""), Builtin("NTILE", "2"),
     Builtin("PERCENT_RANK", ""), Builtin("CUME_DIST", ""),
     Builtin("PERCENTILE_DIST", "0.5"), Builtin("PERCENTILE_CONT", "0.5")}

PositionCalls ==
    {Builtin("LEAD", "b"), WithArguments(Builtin("LAG", "b"), <<"2">>),
     Builtin("FIRST_VALUE", "b"), Builtin("LAST_VALUE", "b"),
     WithArguments(Builtin("NTH_VALUE", "b"), <<"2">>)}

PercentileCalls == {Builtin("PERCENTILE_CONT", p) : p \in {"0.25", "0.5", "0.75", "1"}}

\* The ways a selection refers to a window `spec` for a call: not at all,
\* " OVER ()", " OVER win", [call, "win"] and [call, spec].
Forms(col, spec) ==
    {col, Over(col, "()"), Over(col, "win"), PairWithName(col, "win"), PairWithSpec(col, spec)}

\* The cases of a set of calls and a set of windows: a column and the window
\* the query registers as "win".
CasesOf(calls, windows) ==
    UNION {{<<form, <<spec>>>> : form \in Forms(col, spec)} : col \in calls, spec \in windows}

SelectCases ==
    CasesOf(RankCalls \cup PositionCalls, UnorderedWindows \cup OrderedWindows)
    \cup CasesOf({Builtin("COUNT", "b"), Builtin("ROW_NUMBER", ""), Builtin("RANK", ""),
                  Builtin("FIRST_VALUE", "b")}, RangeWindows)
    \cup CasesOf({Builtin("ROW_NUMBER", "")}, FramedWindows)
    \cup CasesOf(PercentileCalls, OrderedWindows)

InitSelect ==
    /\ New(<<>>)
    /\ ret = <<>> /\ setGen = NoGen
    /\ \E rs \in Sources(WindowData), case \in SelectCases :
          \E j \in 1..Len(rs) :
              call = [fn |-> "mapSelectionToRow", rows |-> rs, sourceRow |-> rs[j],
                      selection |-> SelectList(<<case[1]>>), index |-> j,
                      window |-> case[2]]

NextSelect == RegisterWindow \/ CallMapSelectionToRow

SpecSelect == InitSelect /\ [][NextSelect]_vars

\* Queries whose selection refers to windows, with predicates and a sort,
\* iterated to their end.
QueryWindows ==
    {WindowSpec("b", NoOrder, <<>>), WindowSpec(NoField, OrderBy("+", "b"), FullFrame)}

WindowSelections ==
    {SelectList(<<Field("b"), Over(Builtin("COUNT", "b"), "win")>>),
     SelectList(<<Over(Builtin("ROW_NUMBER", ""), "()")>>),
     SelectList(<<Over(Builtin("LISTAGG", "b"), "()"), Field("b")>>),
     SelectList(<<PairWithName(Builtin("RANK", ""), "win")>>),
     SelectList(<<PairWithSpec(Builtin("SUM", "b"), WindowSpec("b", NoOrder, <<>>))>>)}

InitWindowed == NoCall /\ \E source \in Sources(WindowData) : New(source)

NextWindowed ==
    \/ \E spec \in QueryWindows : Window("win", spec)
    \/ \E sel \in WindowSelections : Select(sel)
    \/ \E predicate \in {"even index", "not first"} : Where(predicate)
    \/ OrderByRows(Comparator("-", "b"))
    \/ Start
    \/ Resume

SpecWindowed == InitWindowed /\ [][NextWindowed]_vars

\* Queries of the lazy path: predicates, a projection, offset, limit and
\* distinct over rows that may repeat, iterated to their end.
InitLazy == NoCall /\ \E source \in Sources(WhereData) : New(source)

NextLazy ==
    \/ \E predicate \in Predicates : Where(predicate)
    \/ \E sel \in PlainSelections : Select(sel)
    \/ Offset(1)
    \/ \E k \in 0..MaxLimit : FetchFirst(k)
    \/ Distinct
    \/ Start
    \/ Resume

SpecLazy == InitLazy /\ [][NextLazy]_vars

\* Queries made by CSVDB.except, CSVDB.intersect and CSVDB.unionAll,
\* configured and then executed with toArray() and getNextRow() in any order.
\* CSVDB.union is CSVDB.unionAll followed by distinct().
SetOperations == {"except", "intersect", "unionAll"}

SecondSources == {<<>>, <<Row(11, <<Entry("a", Str("1"))>>)>>}

InitSingle ==
    /\ ret = <<>> /\ setGen = NoGen
    /\ \E fn \in SetOperations, resultsA \in Sources(WhereData),
          resultsB \in SecondSources :
          /\ call = [fn |-> fn, resultsA |-> resultsA, resultsB |-> resultsB]
          /\ New(SetDrain(fn, resultsA, resultsB,
                          [pc |-> "start", cache |-> <<>>, a |-> 0, b |-> 0], <<>>))

NextSingle ==
    \/ Unexecuted /\ Distinct
    \/ Unexecuted /\ Where("a is 1")
    \/ Unexecuted /\ \E k \in 0..MaxLimit : FetchFirst(k)
    \/ Unexecuted /\ OrderByRows(Comparator("+", "a"))
    \/ GetNextRowOfGenerator
    \/ ToArrayOfGenerator

SpecSingle == InitSingle /\ [][NextSingle]_vars

\* Queries that select one builtin call over the column a, with no OVER
\* clause, iterated to their end.
StatData == {<<Entry("a", Str("1"))>>, <<Entry("a", Str("3"))>>}

ValueListNames == AggregateNames \cup StatNames

ValueListSelections == {SelectList(<<Builtin(name, "a")>>) : name \in ValueListNames}

InitStat == NoCall /\ \E source \in Sources(StatData) : New(source)

NextStat ==
    \/ \E sel \in ValueListSelections : Select(sel)
    \/ Where("not first")
    \/ Start
    \/ Resume

SpecStat == InitStat /\ [][NextStat]_vars

\* A CSVDB over a file of at most MaxRows data lines, read by several
\* iterators whose pulls interleave in any order.
DataLines == {<<"1">>, <<"2">>}

Files == UNION {[1..n -> DataLines] : n \in 0..MaxRows}

\* new CSVDB(csv)
InitDb ==
    /\ NoCall /\ QueryOver(<<>>)
    /\ \E restLines \in Files : rawLines = restLines
    /\ parsedRows = <<>>
    /\ dbIterators = <<>>
    /\ parses = <<>>

NextDb ==
    \/ Iterate
    \/ \E k \in 1..MaxIterators : NextOfDb(k)

SpecDb == InitDb /\ [][NextDb]_vars

----------------------------------------------------------------------------
(* Reference notions the properties are stated with                         *)

Min(x, y) == IF x < y THEN x ELSE y

\* Elements k, ..., k+n-1 (0-based) of R, as far as R has them.
Slice(R, k, n) ==
    LET m == IF Min(Len(R), k + n) > k THEN Min(Len(R), k + n) - k ELSE 0
    IN  [j \in 1..m |-> R[k + j]]

\* Shallow structural equality: the same number of keys, the same key set
\* and strictly equal values under every key.
KeySet(row) == {row.e[j].k : j \in 1..Len(row.e)}

StructurallyEqual(rowA, rowB) ==
    /\ Len(rowA.e) = Len(rowB.e)
    /\ KeySet(rowA) = KeySet(rowB)
    /\ \A key \in KeySet(rowA) : StrictEquals(Get(rowA, key), Get(rowB, key))

\* The rows of S that no earlier row of S is equal to, under `same`.
FirstOccurrences(S, same(_, _)) ==
    LET first(j) == \A m \in 1..(j - 1) : ~same(S[j], S[m])
        at == {j \in 1..Len(S) : first(j)}
        nth(c) == CHOOSE j \in at : Cardinality({m \in at : m < j}) = c - 1
    IN  [c \in 1..Cardinality(at) |-> S[nth(c)]]

\* The rows of S that the rows kept before them are all distinct from, as
\* the DISTINCT stage keeps them.
RECURSIVE Deduplicated(_, _)
Deduplicated(S, kept) ==
    IF S = <<>> THEN kept
    ELSE Deduplicated(Tail(S), IF isDistinct(kept, Head(S)) THEN Append(kept, Head(S))
                                ELSE kept)

\* What the query yields with neither offset nor limit.
Unlimited == toArray([Query EXCEPT !.offset = 0, !.limit = Infinity])

\* What the query yields with no offset, no limit and no DISTINCT.
Projected == toArray([Query EXCEPT !.offset = 0, !.limit = Infinity, !.distinct = FALSE])

----------------------------------------------------------------------------
(* Properties                                                               *)

\* C2: with offset k and fetchFirst n, a complete iteration yields exactly
\* the rows at 0-based positions k .. min(N, k+n)-1 of the sequence R the
\* query yields without offset and limit, in order.
OffsetFetchWindow ==
    (pc = "done" /\ IsFinite(limit)) => yielded = Slice(Unlimited, offset, limit.n)

\* fetchFirst(2) after offset(1) on three rows yields rows 1 and 2.
OffsetFetchWitness ==
    /\ pc = "done" /\ offset = 1 /\ limit = Finite(2) /\ ~distinct
    /\ Len(rows) = 3 /\ yielded = <<rows[2], rows[3]>>

\* C3 (as claimed): with distinct, the iteration yields the first occurrences
\* of the projected rows under structural equality, no two yielded rows are
\* structurally equal, and distinct applied again changes nothing.
DistinctFirstOccurrences ==
    (pc = "done" /\ distinct /\ offset = 0 /\ limit = Infinity) =>
        /\ yielded = FirstOccurrences(Projected, StructurallyEqual)
        /\ \A j, m \in 1..Len(yielded) :
              j # m => ~StructurallyEqual(yielded[j], yielded[m])
        /\ Deduplicated(yielded, <<>>) = yielded

\* C9: with distinct, offset k and fetchFirst n, a complete iteration yields
\* elements k .. k+n-1 of the de-duplicated sequence: rows skipped as
\* duplicates use up neither the offset nor the limit.
DistinctBeforeOffset ==
    (pc = "done" /\ distinct /\ IsFinite(limit)) =>
        yielded = Slice(Deduplicated(Projected, <<>>), offset, limit.n)

\* A duplicate is skipped ahead of the offset and the row after it is yielded.
DistinctBeforeOffsetWitness ==
    /\ pc = "done" /\ distinct /\ offset = 1 /\ limit = Finite(1)
    /\ Len(rows) = 3 /\ isSame(rows[2], rows[1]) /\ ~isSame(rows[3], rows[1])
    /\ ~selection.set
    /\ yielded = <<rows[3]>>

\* C4 (as claimed): two rows are treated as equal exactly when they have the
\* same number of keys, the same key set and strictly equal values under
\* every key; rows whose key sets differ are never treated as equal.
SameIsStructuralEquality ==
    ret # <<>> => (ret[1] <=> StructurallyEqual(call.rowA, call.rowB))

\* The arguments stage s was called with, in call order.
ArgumentsOf(s) ==
    LET mine(c) == c.stage = s
        calls == SelectSeq(joinCalls, mine)
    IN  [j \in 1..Len(calls) |-> calls[j].arg]

\* The lists stage s returned for the calls from the j-th on, concatenated;
\* a null return counts as an empty list.
RECURSIVE Returned(_, _)
Returned(s, j) ==
    LET input == stageRows[s]
        result == IF j > Len(input) THEN JoinResult(join[s], NullRow, input)
                  ELSE JoinResult(join[s], input[j], SubSeq(input, 1, j - 1))
        list == IF result.some THEN result.list ELSE <<>>
    IN  IF j > Len(input) THEN list ELSE list \o Returned(s, j + 1)

\* The properties of each row of S, the identity of the objects left out.
Contents(S) == [j \in 1..Len(S) |-> S[j].e]

\* C1: once the join loop has run, every stage was called once for each row
\* of its input in input order and then once with null; the returned lists
\* concatenated in call order are the input of the next stage; the calls of
\* a stage all come before the calls of the stages after it.
JoinProtocol ==
    (pc # "build" /\ limit # Finite(0)) =>
        /\ Len(stageRows) = Len(join) + 1
        /\ stageRows[1] = rows
        /\ rowsIn = stageRows[Len(join) + 1]
        /\ \A s \in 1..Len(join) :
              /\ ArgumentsOf(s) = stageRows[s] \o <<NullRow>>
              /\ Contents(stageRows[s + 1]) = Contents(Returned(s, 1))
        /\ \A m \in 1..(Len(joinCalls) - 1) :
              joinCalls[m].stage <= joinCalls[m + 1].stage

\* A RIGHT JOIN stage followed by a second stage: the row the first stage
\* returns for null is the last row of the second stage's input.
JoinProtocolWitness ==
    /\ pc = "done" /\ join = <<"right", "joinOn">>
    /\ Len(rows) = 2 /\ Get(rows[1], "a") = Str("1") /\ Get(rows[2], "a") = Str("2")
    /\ Len(stageRows) = 3 /\ Len(stageRows[2]) = 2
    /\ Get(stageRows[2][2], "a") = Str("3")
    /\ Len(yielded) = 2

\* The elements of S at the positions in `at`, in order.
Pick(S, at) ==
    LET nth(c) == CHOOSE j \in at : Cardinality({m \in at : m < j}) = c - 1
    IN  [c \in 1..Cardinality(at) |-> S[nth(c)]]

\* The rows of S that predicate p accepts when it is given each row with its
\* 0-based position in S.
Accepted(S, p) == Pick(S, {j \in 1..Len(S) : Predicate(p, S[j], j - 1)})

\* The rows that reach predicate k: those that passed predicates 1 .. k-1.
RECURSIVE Reaching(_)
Reaching(k) == IF k = 1 THEN rowsIn ELSE Accepted(Reaching(k - 1), where[k - 1])

\* The calls made to predicate k, in call order.
CallsOf(k) ==
    LET mine(c) == c.pred = k
    IN  SelectSeq(predCalls, mine)

\* C8: predicate k is called with the rows that passed the predicates before
\* it, in input order, each with the 0-based count of the rows that reached
\* predicate k before; a complete iteration yields exactly the rows that every
\* predicate accepts, in input order.
WhereChain ==
    (pc # "build" /\ limit # Finite(0)) =>
        /\ \A k \in 1..Len(where) :
              LET calls == CallsOf(k)
              IN  /\ Len(calls) <= Len(Reaching(k))
                  /\ \A j \in 1..Len(calls) :
                        calls[j].row = Reaching(k)[j] /\ calls[j].index = j - 1
        /\ (pc = "done" /\ limit = Infinity) =>
              /\ \A k \in 1..Len(where) : Len(CallsOf(k)) = Len(Reaching(k))
              /\ yielded = Reaching(Len(where) + 1)

\* The second predicate counts the rows that passed the first one: of three
\* rows the last two pass "a is 1" and reach "even index" as rows 0 and 1.
WhereChainWitness ==
    /\ pc = "done" /\ limit = Infinity
    /\ where = <<"a is 1", "even index">>
    /\ Len(rows) = 3 /\ Get(rows[1], "a") = Str("2")
    /\ yielded = <<rows[2]>>
    /\ Len(predCalls) = 5

\* The rows that reach the grouping stage: they passed every predicate.
Filtered == Reaching(Len(where) + 1)

\* The value getNextValue() returns on its first call.
FirstValue == getNextValue(IF yielded = <<>> THEN NoRow ELSE yielded[1], 0)

\* C5 (as claimed): with no GROUP BY and the selection SUM(a), AVG(a) or
\* LISTAGG(a), the value of getNextValue() over an empty row set is null.
EmptyAggregateIsNull ==
    (/\ pc # "build" /\ groupBy = NoField /\ Filtered = <<>>
     /\ selection \in {SelectList(<<Builtin(fn, "a")>>) : fn \in {"SUM", "AVG", "LISTAGG"}})
        => FirstValue = null

\* The selection holds a string column that calls an aggregate function.
SelectsAggregate ==
    /\ selection.set
    /\ \E j \in 1..Len(selection.cols) :
          selection.cols[j].fn \in AggregateNames /\ selection.cols[j].over = ""

\* C6: with no groupBy and an aggregate-function column in the selection, a
\* complete iteration yields exactly one row, also over an empty row set, and
\* its COUNT(*) is the number of rows that passed the filters.
AggregateYieldsOneRow ==
    (pc = "done" /\ groupBy = NoField /\ SelectsAggregate
       /\ offset = 0 /\ limit = Infinity) =>
        /\ Len(yielded) = 1
        /\ HasKey(yielded[1], "COUNT(*)") <=>
              \E j \in 1..Len(selection.cols) : selection.cols[j].alias = "COUNT(*)"
        /\ HasKey(yielded[1], "COUNT(*)") =>
              Get(yielded[1], "COUNT(*)") = Num(Len(Filtered))

\* COUNT(*) beside a plain column over three rows of which a predicate keeps
\* two: one row, with the count 2.
AggregateYieldsOneRowWitness ==
    /\ pc = "done" /\ groupBy = NoField
    /\ selection = SelectList(<<Field("a"), Builtin("COUNT", "*")>>)
    /\ Len(rows) = 3 /\ where = <<"a is 1">> /\ Len(Filtered) = 2
    /\ Len(yielded) = 1 /\ Get(yielded[1], "COUNT(*)") = Num(2)

\* COUNT(*) over an empty row set: one row, with the count 0.
EmptyCountWitness ==
    /\ pc = "done" /\ groupBy = NoField /\ rows = <<>>
    /\ selection = SelectList(<<Builtin("COUNT", "*")>>)
    /\ Len(yielded) = 1 /\ Get(yielded[1], "COUNT(*)") = Num(0)

\* The values of field d in S, each once, in the order they are first seen.
ValuesOf(S, d) ==
    LET values == [j \in 1..Len(S) |-> Get(S[j], d)]
        equal(x, y) == x = y
    IN  FirstOccurrences(values, equal)

FrameIsClampedRange ==
    (/\ ret # <<>> /\ call.fn = "applyWindow"
     /\ call.windowSpec.orderBy # NoOrder /\ call.windowSpec.framing # <<>>) =>
        LET w == call.windowSpec
            ordered == Sort(call.rows, w, <<>>)
            n == Len(ordered)
            at == IndexOf(ordered, call.sourceRow)
            start == FramingStart(w.framing[2])
            end == FramingEnd(w.framing[3])
            from(p) == start.inf = -1 \/ (IsFinite(start) /\ at + start.n <= p)
            upTo(p) == end.inf = 1 \/ (IsFinite(end) /\ p <= at + end.n)
        IN  /\ ~ret[1].threw
            /\ ret[1].rows = Pick(ordered, {p + 1 : p \in {p \in 0..(n - 1) : from(p) /\ upTo(p)}})

\* The rows of S in the positions of T, as bags of row identities, agree.
SameRows(S, T) ==
    /\ Len(S) = Len(T)
    /\ \A r \in {S[p] : p \in 1..Len(S)} \cup {T[p] : p \in 1..Len(T)} :
          Cardinality({p \in 1..Len(S) : S[p] = r}) = Cardinality({p \in 1..Len(T) : T[p] = r})

\* x does not order after y in the order a string orderBy is claimed to mean
ClaimedOrder(orderBy, x, y) ==
    CASE orderBy.prefix = ""  -> LocaleRank[Get(x, orderBy.field).s] <= LocaleRank[Get(y, orderBy.field).s]
      [] orderBy.prefix = "+" -> ToNumber(Get(x, orderBy.field)).n <= ToNumber(Get(y, orderBy.field)).n
      [] orderBy.prefix = "-" -> ToNumber(Get(x, orderBy.field)).n >= ToNumber(Get(y, orderBy.field)).n

\* C11 (as claimed): a window whose orderBy is a string orders the partition
\* lexicographically for a plain field name, numerically ascending for a "+"
\* prefix and numerically descending for a "-" prefix (seen on the full
\* frame, which is the whole ordered partition).
WindowOrderByString ==
    (/\ ret # <<>> /\ call.fn = "applyWindow"
     /\ call.windowSpec.framing = FullFrame) =>
        /\ ~ret[1].threw
        /\ SameRows(ret[1].rows, call.rows)
        /\ \A p, q \in 1..Len(ret[1].rows) :
              p < q => ClaimedOrder(call.windowSpec.orderBy, ret[1].rows[p], ret[1].rows[q])

RankTiedWitness ==
    /\ Len(ret) = 2 /\ call.fn = "applyWindow"
    /\ call.windowSpec.framing = FullFrame /\ call.windowSpec.orderBy.prefix = "+"
    /\ Len(ret[1].rows) = 3 /\ ret[1].rows[2] = call.sourceRow
    /\ ret[2].value = Num(1)

\* x sorts strictly before y in the order the comparator is claimed to mean
Precedes(comparator, x, y) ==
    CASE comparator.prefix = "-" ->
            ToNumber(Get(x, comparator.field)).n > ToNumber(Get(y, comparator.field)).n
      [] comparator.prefix = "+" ->
            ToNumber(Get(x, comparator.field)).n < ToNumber(Get(y, comparator.field)).n
      [] comparator.prefix = "" ->
            LocaleRank[Get(x, comparator.field).s] < LocaleRank[Get(y, comparator.field).s]
      [] OTHER -> ToNumber(Get(x, "n")).n % 2 < ToNumber(Get(y, "n")).n % 2

\* The position of row x in F
PositionIn(F, x) == CHOOSE p \in 1..Len(F) : F[p] = x

\* The permutation of F in the comparator's order, equal rows in F's order.
StablySorted(F, comparator) ==
    CHOOSE T \in [1..Len(F) -> {F[p] : p \in 1..Len(F)}] :
        /\ SameRows(T, F)
        /\ \A p, q \in 1..Len(F) :
              p < q => \/ Precedes(comparator, T[p], T[q])
                       \/ /\ ~Precedes(comparator, T[q], T[p])
                          /\ PositionIn(F, T[p]) < PositionIn(F, T[q])

\* C14: orderBy sorts the joined and filtered rows before grouping and
\* projection: what is grouped and yielded is the permutation of the filter
\* output in the comparator's order, rows that compare equal in input order.
OrderBySortsStable ==
    (pc # "build" /\ sort # NoSort) =>
        LET T == StablySorted(Filtered, sort)
        IN  /\ rowGroups = IF groupBy # NoField THEN groupRows(T, groupBy)
                           ELSE [j \in 1..Len(T) |-> <<T[j]>>]
            /\ (pc = "done" /\ groupBy = NoField) => yielded = T

\* rows [2, 10, 2] sorted by "-n": 10 first, the two 2s in their input order
OrderBySortsStableWitness ==
    /\ pc = "done" /\ sort = Comparator("-", "n") /\ where = <<>>
    /\ Len(rows) = 3 /\ Len(yielded) = 3
    /\ yielded = <<rows[2], rows[1], rows[3]>>
    /\ Get(rows[1], "n") = Get(rows[3], "n")

\* Some row of B is structurally equal to row x
InSource(B, x) == \E m \in 1..Len(B) : StructurallyEqual(x, B[m])

\* C15 (as claimed): except(A, B) never yields a row structurally equal to a
\* row of B, and yields every structurally distinct other row of A exactly
\* once: its first occurrence, in A's order.
ExceptIsDifference ==
    (call # <<>> /\ call.fn = "except") =>
        LET notInB(x) == ~InSource(call.resultsB, x)
        IN  /\ \A p \in 1..Len(ret) : notInB(ret[p])
            /\ setGen.pc = "done" =>
                  ret = FirstOccurrences(SelectSeq(call.resultsA, notInB), StructurallyEqual)

\* C16 (as claimed): intersect(A, B) yields, in A's order, the rows of A
\* that are structurally equal to some row of B, repeated rows of A
\* included, and the cache made of B does not change.
IntersectKeepsMatches ==
    (call # <<>> /\ call.fn = "intersect") =>
        LET inB(x) == InSource(call.resultsB, x)
        IN  /\ setGen.pc # "start" => setGen.cache = call.resultsB
            /\ setGen.pc = "done" => ret = SelectSeq(call.resultsA, inB)

\* C17: unionAll(A, B) yields the rows of A in order, then the rows of B in
\* order, nothing left out: len(A) + len(B) rows.
UnionAllConcatenates ==
    (call # <<>> /\ call.fn = "unionAll") =>
        /\ Len(ret) <= Len(call.resultsA) + Len(call.resultsB)
        /\ ret = SubSeq(call.resultsA \o call.resultsB, 1, Len(ret))
        /\ setGen.pc = "done" =>
              /\ ret = call.resultsA \o call.resultsB
              /\ Len(ret) = Len(call.resultsA) + Len(call.resultsB)

\* a finished unionAll of two sources that share a row: it is yielded twice
UnionAllWitness ==
    /\ call # <<>> /\ call.fn = "unionAll" /\ setGen.pc = "done"
    /\ Len(call.resultsA) = 2 /\ Len(call.resultsB) = 2 /\ Len(ret) = 4
    /\ StructurallyEqual(ret[1], ret[3])

\* The calls of getNextRow() and getNextValue() made so far, in order
Pulls == SelectSeq(ret, LAMBDA c : c.fn \in {"getNextRow", "getNextValue"})

\* C18: getNextRow() and getNextValue() share one iterator, made by the first
\* call of either: the k-th call returns the k-th output row of one
\* execution (or the requested column of it), and undefined behind its end.
PullsShareOneIterator ==
    LET R == toArray(Query)
    IN  /\ (internalIterator = NoIterator) <=> (Pulls = <<>>)
        /\ \A k \in 1..Len(Pulls) :
              /\ Pulls[k].row = IF k <= Len(R) THEN R[k] ELSE NoRow
              /\ Pulls[k].fn = "getNextValue" =>
                    Pulls[k].value = IF k <= Len(R) THEN ValueAt(R[k], Pulls[k].column)
                                     ELSE undefined

\* both methods were called, rows were returned and then undefined twice
PullsShareOneIteratorWitness ==
    /\ Len(ret) = 5 /\ offset = 1 /\ Len(rows) = 3
    /\ ret[1].fn = "getNextValue" /\ ret[1].column = 1 /\ ret[1].value = Get(rows[2], "b")
    /\ ret[2].fn = "getNextRow" /\ ret[2].row = rows[3]
    /\ ret[3].fn = "getNextRow" /\ ret[3].row = NoRow
    /\ ret[4].fn = "getNextValue" /\ ret[4].value = undefined

\* Every complete iteration recorded so far yielded the rows R.
AllIterationsYield(R) ==
    /\ \A k \in 1..Len(ret) : ret[k].fn = "toArray" => ret[k].rows = R
    /\ pc = "done" => yielded = R

\* a step of a for-of loop or a call of toArray()
IterationStep ==
    \/ pc' # pc
    \/ yielded' # yielded
    \/ Len(ret') = Len(ret) + 1 /\ ret'[Len(ret')].fn = "toArray"

\* The pulls made so far returned the first rows of R, undefined behind them.
PullsReturn(R) ==
    \A k \in 1..Len(Pulls) : Pulls[k].row = IF k <= Len(R) THEN R[k] ELSE NoRow

LimitZeroEndsAtOnce ==
    (pc # "build" /\ limit = Finite(0)) =>
        /\ pc = "done"
        /\ yielded = <<>>
        /\ joinCalls = <<>> /\ stageRows = <<>>
        /\ predCalls = <<>>
        /\ rowsIn = <<>> /\ pulled = 0

\* a query with a join stage and a predicate over two rows or more,
\* iterated with limit 0
LimitZeroEndsAtOnceWitness ==
    /\ pc = "done" /\ limit = Finite(0)
    /\ Len(join) >= 1 /\ Len(where) >= 1 /\ Len(rows) >= 2

----------------------------------------------------------------------------
(* Window functions and their windows                                       *)

\* The column #mapSelectionToRow was called with, and the window it names.
EvaluatedColumn == call.selection.cols[1]
Evaluated == ret # <<>> /\ call.fn = "mapSelectionToRow"

\* C21: a column of the rank family or of the position family that has no
\* window with an orderBy to work on raises an error when it is evaluated.
RankFamilyNeedsOrderBy ==
    Evaluated =>
        LET window == WindowOf(EvaluatedColumn)
        IN  (/\ EvaluatedColumn.fn \in RankNames \cup PositionNames
             /\ \/ window.bad
                \/ window.spec = <<>>
                \/ window.spec[1].orderBy = NoOrder)
            => IsThrown(ret[1])

\* FIRST_VALUE(b) OVER win, win partitioned but not ordered, evaluated for a
\* row of three.
RankFamilyNeedsOrderByWitness ==
    /\ Evaluated
    /\ EvaluatedColumn.fn = "FIRST_VALUE" /\ EvaluatedColumn.over = "win"
    /\ ~EvaluatedColumn.array
    /\ "win" \in DOMAIN windowSpecs
    /\ windowSpecs["win"] = WindowSpec("b", NoOrder, <<>>)
    /\ Len(call.rows) = MaxRows
    /\ ret[1] = Thrown("ORDER BY required")

\* C22: a column evaluated over a window spec whose framing unit is not ROWS
\* raises an error, whether the spec has an orderBy or not.
NonRowsUnitRaises ==
    Evaluated =>
        LET window == WindowOf(EvaluatedColumn)
        IN  (/\ ~window.bad
             /\ window.spec # <<>>
             /\ window.spec[1].framing # <<>>
             /\ window.spec[1].framing[1] # "ROWS")
            => IsThrown(ret[1])

\* The rows of rs in the partition of sourceRow, by their positions in rs.
PartitionOf(rs, windowSpec, sourceRow) ==
    {j \in 1..Len(rs) :
        windowSpec.partitionBy # NoField =>
            StrictEquals(Get(rs[j], windowSpec.partitionBy),
                         Get(sourceRow, windowSpec.partitionBy))}

\* The 1-based position of sourceRow in its partition ordered by the window's
\* orderBy, rows that order as equal staying in input order.
PositionInPartition(rs, windowSpec, sourceRow) ==
    LET at == IndexOf(rs, sourceRow) + 1
    IN  1 + Cardinality({j \in PartitionOf(rs, windowSpec, sourceRow) :
                            \/ Compare(windowSpec, rs[j], sourceRow) < 0
                            \/ Compare(windowSpec, rs[j], sourceRow) = 0 /\ j < at})

\* C29: over a window with an orderBy, ROW_NUMBER() is the 1-based position of
\* the row in its ordered partition, whatever framing the window declares.
RowNumberIsPosition ==
    Evaluated =>
        LET window == WindowOf(EvaluatedColumn)
        IN  (/\ EvaluatedColumn.fn = "ROW_NUMBER"
             /\ ~window.bad
             /\ window.spec # <<>>
             /\ window.spec[1].orderBy # NoOrder
             /\ ~IsThrown(ret[1]))
            => Get(ret[1], EvaluatedColumn.alias)
                  = Num(PositionInPartition(call.rows, window.spec[1], call.sourceRow))

\* The claim of C29 for the windows that declare no framing or the full frame.
RowNumberIsPositionUnframed ==
    Evaluated =>
        LET window == WindowOf(EvaluatedColumn)
        IN  (/\ EvaluatedColumn.fn = "ROW_NUMBER"
             /\ ~window.bad
             /\ window.spec # <<>>
             /\ window.spec[1].orderBy # NoOrder
             /\ window.spec[1].framing \in {<<>>, FullFrame}
             /\ ~IsThrown(ret[1]))
            => Get(ret[1], EvaluatedColumn.alias)
                  = Num(PositionInPartition(call.rows, window.spec[1], call.sourceRow))

\* The numbers +row[key] of the rows of a frame.
OrderKeys(frame, key) == {ToNumber(Get(frame[j], key)) : j \in 1..Len(frame)}

\* C30: over a frame that is not empty, ordered by a string orderBy,
\* PERCENTILE_CONT(p) with 0 < p <= 1 completes without an error and returns
\* a value between the smallest and the largest order key of the frame.
PercentileContCompletes ==
    Evaluated =>
        LET window == WindowOf(EvaluatedColumn)
            p == ToNumber(Str(EvaluatedColumn.arg))
        IN  (/\ EvaluatedColumn.fn = "PERCENTILE_CONT"
             /\ ~window.bad
             /\ window.spec # <<>>
             /\ window.spec[1].orderBy # NoOrder
             /\ p.t = "number" /\ p.n > 0 /\ p.n <= p.d
             /\ ~applyWindow(call.rows, window.spec[1], call.sourceRow).threw
             /\ applyWindow(call.rows, window.spec[1], call.sourceRow).rows # <<>>)
            => /\ ~IsThrown(ret[1])
               /\ LET frame == applyWindow(call.rows, window.spec[1], call.sourceRow).rows
                      value == Get(ret[1], EvaluatedColumn.alias)
                  IN  /\ \E least \in OrderKeys(frame, OrderKey(window.spec[1])) :
                            AtLeast(value, least)
                      /\ \E most \in OrderKeys(frame, OrderKey(window.spec[1])) :
                            AtLeast(most, value)

\* The claim of C30 for the evaluations in which findPercentile finds a row
\* that has a row below it.
PercentileContInterpolates ==
    Evaluated =>
        LET window == WindowOf(EvaluatedColumn)
            p == ToNumber(Str(EvaluatedColumn.arg))
        IN  (/\ EvaluatedColumn.fn = "PERCENTILE_CONT"
             /\ ~window.bad
             /\ window.spec # <<>>
             /\ window.spec[1].orderBy # NoOrder
             /\ p.t = "number" /\ p.n > 0 /\ p.n <= p.d
             /\ ~IsThrown(ret[1]))
            => LET frame == applyWindow(call.rows, window.spec[1], call.sourceRow).rows
                   value == Get(ret[1], EvaluatedColumn.alias)
               IN  /\ \E least \in OrderKeys(frame, OrderKey(window.spec[1])) :
                         AtLeast(value, least)
                   /\ \E most \in OrderKeys(frame, OrderKey(window.spec[1])) :
                         AtLeast(most, value)

\* The joined, filtered and sorted row set of the query.
RowSet == IF sort # NoSort THEN StablySorted(Filtered, sort) ELSE Filtered

\* Every call of the selection names a window, a registered one or "()", or
\* is a pair with a window; there is such a call.
ReferencesWindows ==
    /\ selection.set
    /\ \E j \in 1..Len(selection.cols) : selection.cols[j].fn # ""
    /\ \A j \in 1..Len(selection.cols) :
          selection.cols[j].fn # "" =>
              /\ selection.cols[j].over # "" \/ selection.cols[j].array
              /\ selection.cols[j].spec = <<>> =>
                    selection.cols[j].over \in {"()"} \cup DOMAIN windowSpecs

\* Each row of R projected with the whole of R as its candidate rows.
ProjectedOverAll(R) == [k \in 1..Len(R) |-> mapSelectionToRow(R[k], selection, k, R)]

\* C23: with no groupBy and no aggregate column, a query whose selection
\* refers to windows yields one output row per row of the joined, filtered
\* and sorted row set, in that order, each evaluated with the whole row set
\* as the candidate rows of its windows.
WindowedYieldsRowPerRow ==
    (pc = "done" /\ groupBy = NoField /\ ReferencesWindows)
        => yielded = ProjectedOverAll(RowSet)

\* The claim of C23 for the queries whose rows are an array when the loop
\* starts: those without predicates and those that sort.
WindowedOverArray ==
    (pc = "done" /\ groupBy = NoField /\ ReferencesWindows
        /\ (where = <<>> \/ sort # NoSort))
        => yielded = ProjectedOverAll(RowSet)


----------------------------------------------------------------------------
(* The lazy path                                                            *)

\* The query has no join stage, no orderBy, no groupBy, no aggregate column
\* and no window function.
LazyPath ==
    /\ join = <<>> /\ sort = NoSort /\ groupBy = NoField
    /\ ~hasAggregates /\ ~haveWindowFunctions

\* C24: in the lazy path rows are pulled from the source only on demand.
\* Whenever a next() ends in a yield, the row yielded is the projection of the
\* last source row pulled so far, so no source row after the one that produced
\* it has been pulled; and once fetchFirst(n) rows have been yielded, no step
\* pulls from the source again.
PulledOnDemand ==
    [][LazyPath =>
        /\ (pc' = "suspended" /\ yielded' # yielded) =>
              /\ rowsIn' = rows
              /\ pulled' \in 1..Len(rows)
              /\ yielded' = Append(yielded,
                                   mapSelectionToRow(rows[pulled'], selection, i' + 1,
                                                     <<rows[pulled']>>))
        /\ (IsFinite(limit) /\ Len(yielded) >= limit.n) => pulled' = pulled]_vars

\* A query with a predicate and a limit has yielded its n rows and is done,
\* and rows of the source were never pulled.
PulledOnDemandWitness ==
    /\ LazyPath /\ where # <<>> /\ selection # NoSelection
    /\ pc = "done"
    /\ IsFinite(limit) /\ limit.n >= 1 /\ Len(yielded) = limit.n
    /\ pulled >= 2 /\ pulled < Len(rows)

----------------------------------------------------------------------------
(* Queries over a single-use generator                                      *)

\* The row objects call k of the query handed out
Delivered(k) ==
    IF ret[k].fn = "toArray" THEN {ret[k].rows[m].id : m \in 1..Len(ret[k].rows)}
    ELSE IF ret[k].row = NoRow THEN {}
    ELSE {ret[k].row.id}

\* C27: a query made by CSVDB.except, intersect, unionAll or union produces
\* the rows of its generator at most once: no two calls hand out the same row
\* and no toArray() repeats one, so a toArray() after a getNextRow() misses the
\* rows taken; and a toArray() after a toArray() returns no rows.
SingleUseGenerator ==
    /\ \A j \in 1..Len(ret) : \A k \in 1..Len(ret) :
          j < k => /\ Delivered(j) \cap Delivered(k) = {}
                   /\ (ret[j].fn = "toArray" /\ ret[k].fn = "toArray")
                         => ret[k].rows = <<>>
    /\ \A k \in 1..Len(ret) :
          ret[k].fn = "toArray" => Cardinality(Delivered(k)) = Len(ret[k].rows)

\* getNextRow() took a row, the toArray() that followed returned the rows
\* behind it and a second toArray() returned nothing.
SingleUseGeneratorWitness ==
    /\ Len(ret) = 3
    /\ ret[1].fn = "getNextRow" /\ ret[1].row # NoRow
    /\ ret[2].fn = "toArray" /\ Len(ret[2].rows) >= 2
    /\ ret[3].fn = "toArray" /\ ret[3].rows = <<>>

----------------------------------------------------------------------------
(* Builtins over value lists, with no OVER clause and no groupBy            *)

\* The iteration of a query that selects 'NAME(a)', for a NAME of `names`,
\* has ended with one row: the call evaluated over the whole row set.
OneRowOverRowSet(names) ==
    (/\ pc = "done"
     /\ groupBy = NoField
     /\ selection.set /\ Len(selection.cols) = 1
     /\ selection.cols[1].fn \in names /\ selection.cols[1].over = "")
    => yielded = <<mapSelectionToRow(IF RowSet = <<>> THEN NoRow ELSE RowSet[1],
                                     selection, 1, RowSet)>>

\* C28: a selection 'NAME(a)' with no OVER clause and no groupBy, NAME in the
\* Aggregate registry or the Statistical registry, makes the query yield
\* exactly one row, computed over the whole row set.
ValueListBuiltinYieldsOneRow == OneRowOverRowSet(ValueListNames)

\* The same for the names of the Aggregate registry alone.
AggregateRegistryYieldsOneRow == OneRowOverRowSet(AggregateNames)

----------------------------------------------------------------------------
(* CSVDB iterators                                                          *)

\* The index of the data line the row was parsed from
LineOf(row) == parses[row.id]

\* The indices of the data lines of the rows the k-th iteration yielded
LinesOf(k) == [m \in 1..Len(dbIterators[k].out) |-> LineOf(dbIterators[k].out[m])]

\* C25: however the iterators of one CSVDB interleave, each data line is
\* parsed at most once: the cache never holds more than rowCount rows, and
\* the row yielded for a data line is the same object in every iteration.
LinesParsedOnce ==
    /\ Len(parsedRows) <= rowCount
    /\ \A p \in 1..Len(parses) : \A q \in 1..Len(parses) : parses[p] = parses[q] => p = q
    /\ \A j \in 1..Len(dbIterators) : \A k \in 1..Len(dbIterators) :
          \A m \in 1..Len(dbIterators[j].out) : \A n \in 1..Len(dbIterators[k].out) :
              LineOf(dbIterators[j].out[m]) = LineOf(dbIterators[k].out[n])
                  => dbIterators[j].out[m].id = dbIterators[k].out[n].id

\* C26: every complete iteration over a CSVDB has yielded exactly rowCount
\* rows, one per data line in file order, whatever other iterators did
\* between its pulls or before it started.
IterationYieldsEveryLine ==
    \A k \in 1..Len(dbIterators) :
        dbIterators[k].pc = "done" => LinesOf(k) = [m \in 1..rowCount |-> m - 1]

\* Iterations that do not overlap: every iterator made before the last one
\* is done.
OneAtATime ==
    \A k \in 1..Len(dbIterators) : k < Len(dbIterators) => dbIterators[k].pc = "done"

\* When the iterations do not overlap, each line is parsed once and every
\* complete iteration yields every line.
SequentialIterationsShareRows ==
    []OneAtATime => [](LinesParsedOnce /\ IterationYieldsEveryLine)

====
